---- MODULE Spec2Model ----
(***************************************************************************)
(* A model of the registry analysis tool: loading the crates index         *)
(* (src/src/index.rs), synthesising an ephemeral workspace per crate       *)
(* version (src/src/synth_workspace.rs), and the parallel resolve batch of *)
(* main (src/src/main.rs) with its thread-local resolver context, its      *)
(* lockfile cache and its classification of resolver diagnostics.          *)
(*                                                                         *)
(* Text is modelled as a sequence of one-character strings (version        *)
(* strings) or of words (diagnostics), so that parsing and substring       *)
(* search are computed, not assumed.  Option<T> is a sequence of length    *)
(* at most one: <<>> is None and <<x>> is Some(x).                         *)
(***************************************************************************)
EXTENDS Integers, Sequences, FiniteSets, TLC

\* ---------------------------------------------------------------- bounds
MaxRecords == 3      \* records (lines) per package file, index specification
MaxFrags   == 3      \* fragments per diagnostic text, classifier specification
MaxDeps    == 2      \* dependencies per version record, synthesis specification
MaxAsks    == 2      \* ask_version calls on one Krate
MaxRuns    == 2      \* runs of the program over one lock-files directory
NumWorkers == 2      \* threads of the rayon pool

\* ------------------------------------------------------- text and semver
Some(x) == <<x>>
NoneVal == <<>>
IsSome(o) == Len(o) = 1
Unwrap(o) == o[1]

\* The characters the modelled strings use, in ASCII order.
Ascii == << "-", ".", "0", "1", "2", "3", "4", "5", "6", "7", "8", "9", "a", "b", "c" >>
Rank(c) == CHOOSE i \in 1..Len(Ascii) : Ascii[i] = c
IsDigit(c) == c \in {"0", "1", "2", "3", "4", "5", "6", "7", "8", "9"}
IsAlnumDash(c) == IsDigit(c) \/ c \in {"a", "b", "c", "-"}
DigitVal(c) == Rank(c) - 3

RECURSIVE Split(_, _)
Split(s, sep) ==
    IF \A i \in 1..Len(s) : s[i] # sep
    THEN << s >>
    ELSE LET i == CHOOSE k \in 1..Len(s) : s[k] = sep /\ \A j \in 1..(k - 1) : s[j] # sep
         IN  << SubSeq(s, 1, i - 1) >> \o Split(SubSeq(s, i + 1, Len(s)), sep)

RECURSIVE ToNat(_)
ToNat(s) == IF s = <<>> THEN 0 ELSE 10 * ToNat(SubSeq(s, 1, Len(s) - 1)) + DigitVal(s[Len(s)])

AllDigits(s) == \A i \in 1..Len(s) : IsDigit(s[i])
\* a numeric identifier: digits, no leading zero
NumericIdent(s) == Len(s) > 0 /\ AllDigits(s) /\ (Len(s) = 1 \/ s[1] # "0")
\* a pre-release identifier: non-empty, [0-9a-z-], numeric ones without leading zero
PreIdent(s) ==
    /\ Len(s) > 0
    /\ \A i \in 1..Len(s) : IsAlnumDash(s[i])
    /\ (AllDigits(s) => NumericIdent(s))

\* semver::Version::parse: MAJOR.MINOR.PATCH with an optional -PRERELEASE
\* (build metadata is not among the modelled strings).
SemverParse(s) ==
    LET dash == {i \in 1..Len(s) : s[i] = "-"}
        cut  == IF dash = {} THEN Len(s) + 1 ELSE CHOOSE i \in dash : \A j \in dash : i <= j
        core == Split(SubSeq(s, 1, cut - 1), ".")
        pre  == IF dash = {} THEN <<>> ELSE Split(SubSeq(s, cut + 1, Len(s)), ".")
    IN  IF /\ Len(core) = 3
           /\ \A i \in 1..3 : NumericIdent(core[i])
           /\ \A i \in 1..Len(pre) : PreIdent(pre[i])
        THEN Some([major |-> ToNat(core[1]), minor |-> ToNat(core[2]),
                   patch |-> ToNat(core[3]), pre |-> pre])
        ELSE NoneVal

\* lexical (ASCII) order of two strings: -1, 0, 1
RECURSIVE StrCmp(_, _)
StrCmp(a, b) ==
    IF a = <<>> /\ b = <<>> THEN 0
    ELSE IF a = <<>> THEN -1
    ELSE IF b = <<>> THEN 1
    ELSE IF Rank(a[1]) < Rank(b[1]) THEN -1
    ELSE IF Rank(a[1]) > Rank(b[1]) THEN 1
    ELSE StrCmp(Tail(a), Tail(b))

IntCmp(a, b) == IF a < b THEN -1 ELSE IF a > b THEN 1 ELSE 0

\* order of two pre-release identifiers: numeric below alphanumeric
IdentCmp(a, b) ==
    IF AllDigits(a) /\ AllDigits(b) THEN IntCmp(ToNat(a), ToNat(b))
    ELSE IF AllDigits(a) THEN -1
    ELSE IF AllDigits(b) THEN 1
    ELSE StrCmp(a, b)

RECURSIVE PreListCmp(_, _)
PreListCmp(a, b) ==
    IF a = <<>> /\ b = <<>> THEN 0
    ELSE IF a = <<>> THEN -1
    ELSE IF b = <<>> THEN 1
    ELSE IF IdentCmp(a[1], b[1]) # 0 THEN IdentCmp(a[1], b[1])
    ELSE PreListCmp(Tail(a), Tail(b))

\* a version without pre-release is above every pre-release of the same triple
PreCmp(a, b) ==
    IF a = <<>> /\ b = <<>> THEN 0
    ELSE IF a = <<>> THEN 1
    ELSE IF b = <<>> THEN -1
    ELSE PreListCmp(a, b)

\* Ord for semver::Version
SemverCmp(x, y) ==
    IF x.major # y.major THEN IntCmp(x.major, y.major)
    ELSE IF x.minor # y.minor THEN IntCmp(x.minor, y.minor)
    ELSE IF x.patch # y.patch THEN IntCmp(x.patch, y.patch)
    ELSE PreCmp(x.pre, y.pre)

SemverLess(x, y) == SemverCmp(x, y) < 0

\* ------------------------------------------------------------ the index
\* A string literal of the model: Str(<<"1", ".", "0">>) is just the sequence.
V100 == << "1", ".", "0", ".", "0" >>
V110 == << "1", ".", "1", ".", "0" >>
V200 == << "2", ".", "0", ".", "0" >>
V200a == << "2", ".", "0", ".", "0", "-", "a" >>
VShort == << "1", ".", "0" >>                       \* not a semver: two components
VLead == << "0", "1", ".", "0", ".", "0" >>         \* not a semver: leading zero
VersionStrings == {V100, V110, V200, V200a, VShort, VLead}

RV162 == << "1", ".", "6", "2" >>                   \* rust-version "1.62"
RVBad == << "1", ".", "a" >>                        \* rust-version "1.a"

\* crates_index::Version: one line of a package file
RecordWith(vers, yanked, rv, deps) ==
    [vers |-> vers, yanked |-> yanked, rust_version |-> rv, dependencies |-> deps]
Record(vers, yanked, rv) == RecordWith(vers, yanked, rv, <<>>)

\* a line of a package file that is not the JSON of a version
MalformedLine == [malformed |-> TRUE]
\* serde_jsonlines::json_lines: Ok for a line that deserialises
json_line_ok(line) == "vers" \in DOMAIN line

\* BTreeMap<semver::Version, crates_index::Version> as the sequence of its
\* entries in key order.
BTreeInsertAppend(m, k, v) == Append(m, [key |-> k, val |-> v])
BTreeInsert(m, k, v) ==
    IF \E i \in 1..Len(m) : SemverCmp(m[i].key, k) = 0
    THEN LET i == CHOOSE j \in 1..Len(m) : SemverCmp(m[j].key, k) = 0
         IN  [m EXCEPT ![i].val = v]
    ELSE LET below == Cardinality({j \in 1..Len(m) : SemverLess(m[j].key, k)})
         IN  SubSeq(m, 1, below) \o << [key |-> k, val |-> v] >> \o SubSeq(m, below + 1, Len(m))

\* the closure of parse_index for one file: every record's version string is
\* parsed and the pairs are collected into a BTreeMap; the first string that
\* does not parse makes the whole collect an Err (None here).
RECURSIVE CollectVersions(_, _)
CollectVersions(records, acc) ==
    IF records = <<>> THEN Some(acc)
    ELSE LET sv == SemverParse(Head(records).vers)
         IN  IF ~IsSome(sv) THEN NoneVal
             ELSE CollectVersions(Tail(records), BTreeInsert(acc, Unwrap(sv), Head(records)))

\* the lines are collected into a Vec first (an Err on the first line that
\* is not JSON), then the versions into the BTreeMap
parse_file(records) ==
    IF \E i \in 1..Len(records) : ~json_line_ok(records[i])
    THEN NoneVal
    ELSE CollectVersions(records, <<>>)

\* parse_index: one task per file, collected into Result<HashMap<..>>
parse_index(fs) ==
    IF \E p \in DOMAIN fs : ~IsSome(parse_file(fs[p]))
    THEN NoneVal
    ELSE Some([p \in DOMAIN fs |-> Unwrap(parse_file(fs[p]))])

\* versions.iter().rev().find(|(_, version)| !version.is_yanked())
RECURSIVE FindLast(_, _)
FindLast(m, i) ==
    IF i = 0 THEN NoneVal
    ELSE IF ~m[i].val.yanked THEN Some(m[i])
    ELSE FindLast(m, i - 1)

RECURSIVE FindFirst(_, _)
FindFirst(m, i) ==
    IF i > Len(m) THEN NoneVal
    ELSE IF ~m[i].val.yanked THEN Some(m[i])
    ELSE FindFirst(m, i + 1)

latest_non_yanked_forward(versions) == FindFirst(versions, 1)
latest_of_all(versions) == IF versions = <<>> THEN NoneVal ELSE Some(versions[Len(versions)])
latest_non_yanked(versions) == FindLast(versions, Len(versions))

\* ------------------------------------------------- workspace synthesis
\* synth_manifest_path: LOCK_FILES_PATH / crate_name / version.version() / Cargo.toml
synth_manifest_path_unversioned(crate_name, version) == << "lock-files", crate_name, "Cargo.toml" >>
synth_manifest_path(crate_name, version) == << "lock-files", crate_name, version.vers, "Cargo.toml" >>

\* the lockfile of the ephemeral workspace lives next to its manifest
LockfilePath(crate_name, version) ==
    LET m == synth_manifest_path(crate_name, version)
    IN  SubSeq(m, 1, Len(m) - 1) \o << "Cargo.lock" >>

\* RustVersion::from_str: MAJOR[.MINOR[.PATCH]], numeric components only
RustVersionParse(s) ==
    LET parts == Split(s, ".")
    IN  IF Len(parts) \in 1..3 /\ \A i \in 1..Len(parts) : NumericIdent(parts[i])
        THEN Some(parts) ELSE NoneVal

\* synth_rust_version: Ok(None), Ok(Some(v)) or Err; the result says whether
\* it is Ok
synth_rust_version(version) ==
    IF ~IsSome(version.rust_version) THEN TRUE
    ELSE IsSome(RustVersionParse(Unwrap(version.rust_version)))

\* synth_workspace is Ok exactly when every part of the manifest is (the
\* versions given to it in the resolve phase have no dependencies;
\* synth_dependencies is further down)
synth_workspace(crate_name, version) == synth_rust_version(version)

\* ------------------------------------------------------ the classifier
PSelect == << "failed", "to", "select", "a", "version", "for", "the", "requirement" >>
PYanked == << "is", "yanked" >>
PCyclic == << "cyclic", "package", "dependency" >>
PUnavailable == << "is", "unavailable" >>
PNoise == << "package", "foo" >>
PIs == << "is" >>

\* str::contains at the granularity of words
Contains(text, pat) ==
    \E i \in 1..(Len(text) - Len(pat) + 1) : SubSeq(text, i, i + Len(pat) - 1) = pat

\* ResolveError::from_str: Ok(ResolveError) is Some(record), Err(value) is None
from_str_any(crate_name, version, value) ==
    IF Contains(value, PSelect) \/ Contains(value, PYanked)
    THEN Some([crate_name |-> crate_name, version |-> version, kind |-> "DependencyFullyYanked"])
    ELSE NoneVal
from_str(crate_name, version, value) ==
    IF Contains(value, PSelect) /\ Contains(value, PYanked)
    THEN Some([crate_name |-> crate_name, version |-> version, kind |-> "DependencyFullyYanked"])
    ELSE NoneVal

\* ------------------------------------------------------- the environment
Packages == {"a", "b"}
Workers == 1..NumWorkers
Runs == 1..MaxRuns

\* package files the resolve batch is explored over
FileOne     == << Record(V100, FALSE, NoneVal) >>
FileYanked  == << Record(V100, TRUE, NoneVal), Record(V110, TRUE, NoneVal) >>
FileMixed   == << Record(V200, TRUE, NoneVal), Record(V100, FALSE, Some(RV162)), Record(V110, FALSE, NoneVal) >>
FileBadRust == << Record(V100, FALSE, Some(RVBad)) >>
FileBadVers == << Record(VShort, FALSE, NoneVal) >>
SampleFiles == {FileYanked, FileMixed, FileBadRust, FileBadVers}

\* a file whose package reaches the resolver when its worker has a context
Resolvable(file) ==
    /\ IsSome(parse_file(file))
    /\ IsSome(latest_non_yanked(Unwrap(parse_file(file))))
    /\ synth_workspace("", Unwrap(latest_non_yanked(Unwrap(parse_file(file)))).val)

\* every file of at most n records, for the index specification
RecordSet == {Record(v, y, NoneVal) : v \in VersionStrings, y \in BOOLEAN}
AllFiles(n) == UNION {[1..k -> RecordSet] : k \in 0..n}

\* what resolve_with_previous returns for a workspace: Ok or an error text
ResolveOk == [ok |-> TRUE, err |-> <<>>]
DiagYanked == [ok |-> FALSE, err |-> PSelect \o PNoise \o PYanked]
DiagCyclic == [ok |-> FALSE, err |-> PCyclic \o PNoise]
ResolverResults == {ResolveOk, DiagYanked, DiagCyclic}

\* diagnostic texts for the classifier specification
Frags == {PSelect, PYanked, PCyclic, PUnavailable, PNoise, PIs}
RECURSIVE Flatten(_)
Flatten(ss) == IF ss = <<>> THEN <<>> ELSE Head(ss) \o Flatten(Tail(ss))
Texts == {Flatten(fs) : fs \in UNION {[1..k -> Frags] : k \in 0..MaxFrags}}

\* ----------------------------------------------------------------- state
VARIABLES
    files,            \* the index directory: package name -> records of its file
    resolver,         \* the external resolver: package name -> its result
    cache,            \* the lock-files directory: the lockfile paths that exist
    run,              \* which run of the program this is
    mainpc,           \* main: "parse", "resolve", "done" (Ok) or "failed" (Err)
    index,            \* Some(result of parse_index) once parsed
    pending,          \* packages the index iterator has not yielded yet
    wpc,              \* per worker: where it is in the try_for_each closure
    witem,            \* per worker: Some(crate_name, semver, version) being processed
    ctx,              \* per worker: the thread-local GLOBAL_CONTEXT, Some once forced
    NEXT_THREAD_ID,   \* the static counter of worker ids
    resolve_errors,   \* the Vec behind the Mutex
    guard,            \* Some(worker) holding the Mutex
    buf,              \* per worker: the Vec as read under the guard
    position,         \* position of the "Resolving" progress bar
    report,           \* Some(numbers of the final "Resolved" line)
    invoked,          \* history: run -> package -> calls of resolve_with_previous
    outcome,          \* history: run -> package -> how its item ended
    created,          \* history: worker -> times the GLOBAL_CONTEXT initialiser ran
    uses,             \* history: (worker, context id) of every use of a context in this run
    value,            \* classifier specification: the diagnostic text
    classified,       \* classifier specification: Some(result of from_str)
    parsed,           \* load: package -> Some(result of the parse_index closure) once run
    torn,             \* the lockfile paths that exist with an incomplete content
    search,           \* SEARCH_CRATE and SEARCH_REQ of the walk
    reverse_index,    \* the DashMap: the set of (crate, semver, dependent) entries
    cursor,           \* per package task of the build: version and dependency reached
    accepted,         \* history: (dependent, dependency number, target) of every insert
    queue,            \* the VecDeque of the walk
    reverse_dependencies, \* the HashSet of the walk
    pushed,           \* history: the pairs pushed at line 289, in order
    popped,           \* history: the pairs popped at line 282, in order
    filter_input,     \* history: the set the last filter was given
    filtered_reverse_dependencies, \* the HashSet a filter collected
    args,             \* function specifications: the arguments
    result,           \* function specifications: Some(result) once applied
    krate,            \* Some(Krate): its versions map and asked_versions
    answers           \* history: (req, answer) of every ask_version call, in order

vars == << files, resolver, cache, run, mainpc, index, pending, wpc, witem, ctx,
           NEXT_THREAD_ID, resolve_errors, guard, buf, position, report,
           invoked, outcome, created, uses, value, classified,
           parsed, torn, search, reverse_index, cursor, accepted, queue,
           reverse_dependencies, pushed, popped,
           filter_input, filtered_reverse_dependencies, args, result, krate, answers >>

envVars == << files, resolver, value, classified >>
histVars == << invoked, outcome, created, uses >>
loadVars == << parsed >>
graphVars == << search, reverse_index, cursor, accepted >>
walkVars == << queue, reverse_dependencies, pushed, popped >>
filterVars == << filter_input, filtered_reverse_dependencies >>
fnVars == << args, result >>
krateVars == << krate, answers >>
tailVars == << filterVars, fnVars, krateVars >>

\* the filters, the functions on their own and the Krate before they start
TailInit ==
    /\ filter_input = {}
    /\ filtered_reverse_dependencies = {}
    /\ args = <<>>
    /\ result = NoneVal
    /\ krate = NoneVal
    /\ answers = <<>>

\* the load, the build and the walk before they start
RestInit ==
    /\ parsed = [p \in DOMAIN files |-> NoneVal]
    /\ torn = {}
    /\ search = [crate |-> "a", req |-> <<>>]
    /\ reverse_index = {}
    /\ cursor = [p \in DOMAIN files |-> [v |-> 1, d |-> 1]]
    /\ accepted = {}
    /\ queue = <<>>
    /\ reverse_dependencies = {}
    /\ pushed = <<>>
    /\ popped = <<>>
    /\ TailInit

Index == Unwrap(index)

\* the state of a fresh process
ProcessInit ==
    /\ mainpc = "parse"
    /\ index = NoneVal
    /\ pending = {}
    /\ wpc = [w \in Workers |-> "idle"]
    /\ witem = [w \in Workers |-> NoneVal]
    /\ ctx = [w \in Workers |-> NoneVal]
    /\ NEXT_THREAD_ID = 1
    /\ resolve_errors = <<>>
    /\ guard = NoneVal
    /\ buf = [w \in Workers |-> <<>>]
    /\ position = 0
    /\ report = NoneVal

HistInit(pkgs) ==
    /\ invoked = [r \in Runs |-> [p \in pkgs |-> 0]]
    /\ outcome = [r \in Runs |-> [p \in pkgs |-> "none"]]
    /\ created = [w \in Workers |-> 0]
    /\ uses = {}

Init ==
    /\ files \in [Packages -> SampleFiles]
    /\ resolver \in [Packages -> ResolverResults]
    /\ \A p \in Packages : ~Resolvable(files[p]) => resolver[p] = ResolveOk
    /\ cache = {}
    /\ run = 1
    /\ ProcessInit
    /\ HistInit(Packages)
    /\ value = <<>>
    /\ classified = NoneVal
    /\ RestInit

\* one package file of every shape, no resolver failures
InitIndex ==
    /\ files \in [{"a"} -> AllFiles(MaxRecords)]
    /\ resolver = [p \in {"a"} |-> ResolveOk]
    /\ cache = {}
    /\ run = 1
    /\ ProcessInit
    /\ HistInit({"a"})
    /\ value = <<>>
    /\ classified = NoneVal
    /\ RestInit

\* one diagnostic text of every shape
InitClassify ==
    /\ files = [p \in {"a"} |-> FileOne]
    /\ resolver = [p \in {"a"} |-> ResolveOk]
    /\ cache = {}
    /\ run = 1
    /\ ProcessInit
    /\ HistInit({"a"})
    /\ value \in Texts
    /\ classified = NoneVal
    /\ RestInit

\* --------------------------------------------------------------- actions
\* main, lines 118-122: parse the index, or return its error
ParseIndex ==
    /\ mainpc = "parse"
    /\ LET res == parse_index(files)
       IN  IF IsSome(res)
           THEN /\ index' = res
                /\ pending' = DOMAIN Unwrap(res)
                /\ mainpc' = "resolve"
           ELSE /\ mainpc' = "failed"
                /\ UNCHANGED << index, pending >>
    /\ UNCHANGED << cache, run, wpc, witem, ctx, NEXT_THREAD_ID, resolve_errors,
                    guard, buf, position, report >>
    /\ UNCHANGED envVars
    /\ UNCHANGED << tailVars, loadVars, torn, graphVars, walkVars >>
    /\ UNCHANGED histVars

\* The closure given to try_for_each (lines 140-191) runs the closure given
\* to GLOBAL_CONTEXT.with, drops its Result (the statement ends in ';') and
\* returns Ok(()).
try_for_each_closure(inner) == "Ok"

\* the end of one work item on worker w: inner is the Result of the closure
\* given to GLOBAL_CONTEXT.with; an Err of try_for_each would end main
EndItem(w, status, inner) ==
    /\ wpc' = [wpc EXCEPT ![w] = "idle"]
    /\ witem' = [witem EXCEPT ![w] = NoneVal]
    /\ outcome' = [outcome EXCEPT ![run][Unwrap(witem[w]).crate_name] = status]
    /\ mainpc' = IF try_for_each_closure(inner) = "Err" THEN "failed" ELSE mainpc

\* the iterator behind par_bridge, lines 124-138: the next package of the
\* HashMap (any order); a package without a non-yanked version is stepped
\* over, any other becomes the work item of the worker that asked.  The
\* closure's own step() (line 141) is taken with it.
Pull(w) ==
    /\ mainpc = "resolve"
    /\ wpc[w] = "idle"
    /\ \E p \in pending :
        LET sel == latest_non_yanked(Index[p])
        IN  /\ pending' = pending \ {p}
            /\ position' = position + 1
            /\ IF IsSome(sel)
               THEN /\ witem' = [witem EXCEPT ![w] = Some([crate_name |-> p,
                                                           semver |-> Unwrap(sel).key,
                                                           version |-> Unwrap(sel).val])]
                    /\ wpc' = [wpc EXCEPT ![w] = "ctx"]
                    /\ UNCHANGED outcome
               ELSE /\ outcome' = [outcome EXCEPT ![run][p] = "skipped"]
                    /\ UNCHANGED << witem, wpc >>
    /\ UNCHANGED << cache, run, mainpc, index, ctx, NEXT_THREAD_ID, resolve_errors,
                    guard, buf, report, invoked, created, uses >>
    /\ UNCHANGED envVars
    /\ UNCHANGED << tailVars, loadVars, torn, graphVars, walkVars >>

\* NEXT_THREAD_ID.fetch_add(1, Relaxed): the new value of the counter
fetch_add_lost(n) == n
fetch_add(n) == n + 1

\* format!("{}/worker-{:02}", CARGO_HOMES_PATH.display(), id)
RECURSIVE ToDigits(_)
ToDigits(n) == IF n < 10 THEN << Ascii[n + 3] >> ELSE ToDigits(n \div 10) \o << Ascii[(n % 10) + 3] >>
Pad2(d) == IF Len(d) < 2 THEN << "0" >> \o d ELSE d
cargo_home(id) == << "cargo-homes", "/", "worker-" >> \o Pad2(ToDigits(id))

\* GLOBAL_CONTEXT.with, lines 62-105 and 142-143: the LazyCell is forced on
\* the worker's first item (the context may fail to configure) and the
\* stored Result is borrowed on every item.
WithContext(w) ==
    /\ mainpc = "resolve"
    /\ wpc[w] = "ctx"
    /\ \E ok \in BOOLEAN :
        LET fresh == [id |-> NEXT_THREAD_ID, home |-> cargo_home(NEXT_THREAD_ID), ok |-> ok]
            cell  == IF IsSome(ctx[w]) THEN Unwrap(ctx[w]) ELSE fresh
        IN  /\ IsSome(ctx[w]) => ok = cell.ok
            /\ IF IsSome(ctx[w])
               THEN UNCHANGED << ctx, NEXT_THREAD_ID, created >>
               ELSE /\ ctx' = [ctx EXCEPT ![w] = Some(fresh)]
                    /\ NEXT_THREAD_ID' = fetch_add(NEXT_THREAD_ID)
                    /\ created' = [created EXCEPT ![w] = @ + 1]
            /\ IF cell.ok
               THEN /\ wpc' = [wpc EXCEPT ![w] = "synth"]
                    /\ uses' = uses \cup {[worker |-> w, id |-> cell.id]}
                    /\ UNCHANGED << witem, outcome, mainpc >>
               ELSE /\ EndItem(w, "ctx_error", "Err")
                    /\ UNCHANGED uses
    /\ UNCHANGED << cache, run, index, pending, resolve_errors, guard, buf,
                    position, report, invoked >>
    /\ UNCHANGED envVars
    /\ UNCHANGED << tailVars, loadVars, torn, graphVars, walkVars >>

\* line 145: synth_workspace(crate_name, version, &gctx)?
SynthWorkspace(w) ==
    /\ mainpc = "resolve"
    /\ wpc[w] = "synth"
    /\ LET item == Unwrap(witem[w])
       IN  IF synth_workspace(item.crate_name, item.version)
           THEN /\ wpc' = [wpc EXCEPT ![w] = "load"]
                /\ UNCHANGED << witem, outcome, mainpc >>
           ELSE EndItem(w, "synth_error", "Err")
    /\ UNCHANGED << cache, run, index, pending, ctx, NEXT_THREAD_ID, resolve_errors,
                    guard, buf, position, report, invoked, created, uses >>
    /\ UNCHANGED envVars
    /\ UNCHANGED << tailVars, loadVars, torn, graphVars, walkVars >>

\* cargo::ops::load_pkg_lockfile: Some(resolve) when the lockfile exists
load_pkg_lockfile_miss(c, path) == NoneVal
load_pkg_lockfile(c, path) == IF path \in c THEN Some(path) ELSE NoneVal

\* lines 146-148: a lockfile that exists is the resolve (a file that a
\* stopped process left half written is read by LoadTornLockfile)
LoadLockfile(w) ==
    /\ mainpc = "resolve"
    /\ wpc[w] = "load"
    /\ LockfilePath(Unwrap(witem[w]).crate_name, Unwrap(witem[w]).version) \notin torn
    /\ LET item == Unwrap(witem[w])
       IN  IF IsSome(load_pkg_lockfile(cache, LockfilePath(item.crate_name, item.version)))
           THEN EndItem(w, "cached", "Ok")
           ELSE /\ wpc' = [wpc EXCEPT ![w] = "resolve"]
                /\ UNCHANGED << witem, outcome, mainpc >>
    /\ UNCHANGED << cache, run, index, pending, ctx, NEXT_THREAD_ID, resolve_errors,
                    guard, buf, position, report, invoked, created, uses >>
    /\ UNCHANGED envVars
    /\ UNCHANGED << tailVars, loadVars, torn, graphVars, walkVars >>

\* lines 149-177: resolve_with_previous; an Err goes through
\* ResolveError::from_str, whose Err leaves the closure by '?'
Resolve(w) ==
    /\ mainpc = "resolve"
    /\ wpc[w] = "resolve"
    /\ LET item == Unwrap(witem[w])
           res  == resolver[item.crate_name]
       IN  /\ invoked' = [invoked EXCEPT ![run][item.crate_name] = @ + 1]
           /\ IF res.ok
              THEN /\ wpc' = [wpc EXCEPT ![w] = "write"]
                   /\ UNCHANGED << witem, outcome, mainpc >>
              ELSE IF IsSome(from_str(item.crate_name, item.semver, res.err))
              THEN /\ wpc' = [wpc EXCEPT ![w] = "lock"]
                   /\ UNCHANGED << witem, outcome, mainpc >>
              ELSE EndItem(w, "unclassified", "Err")
    /\ UNCHANGED << cache, run, index, pending, ctx, NEXT_THREAD_ID, resolve_errors,
                    guard, buf, position, report, created, uses >>
    /\ UNCHANGED envVars
    /\ UNCHANGED << tailVars, loadVars, torn, graphVars, walkVars >>

\* cargo::ops::write_pkg_lockfile: the lockfile exists afterwards
write_pkg_lockfile_nowhere(c, path) == c
write_pkg_lockfile(c, path) == c \cup {path}

\* lines 178-181: write_pkg_lockfile(&workspace, &mut resolve)?
WriteLockfile(w) ==
    /\ mainpc = "resolve"
    /\ wpc[w] = "write"
    /\ LET item == Unwrap(witem[w])
       IN  cache' = write_pkg_lockfile(cache, LockfilePath(item.crate_name, item.version))
    /\ EndItem(w, "resolved", "Ok")
    /\ UNCHANGED << run, index, pending, ctx, NEXT_THREAD_ID, resolve_errors,
                    guard, buf, position, report, invoked, created, uses >>
    /\ UNCHANGED envVars
    /\ UNCHANGED << tailVars, loadVars, torn, graphVars, walkVars >>

\* parking_lot::Mutex::lock returns once no other guard is alive
lock_unguarded(g) == TRUE
lock(g) == ~IsSome(g)

\* line 174: resolve_errors.lock(); Vec::push then reads the Vec
Lock(w) ==
    /\ mainpc = "resolve"
    /\ wpc[w] = "lock"
    /\ lock(guard)
    /\ guard' = Some(w)
    /\ buf' = [buf EXCEPT ![w] = resolve_errors]
    /\ wpc' = [wpc EXCEPT ![w] = "push"]
    /\ UNCHANGED << cache, run, mainpc, index, pending, witem, ctx, NEXT_THREAD_ID,
                    resolve_errors, position, report >>
    /\ UNCHANGED envVars
    /\ UNCHANGED << tailVars, loadVars, torn, graphVars, walkVars >>
    /\ UNCHANGED histVars

\* lines 175-176: Vec::push writes the element and the new length; return
\* Ok(()) drops the guard
Push(w) ==
    /\ mainpc = "resolve"
    /\ wpc[w] = "push"
    /\ LET item == Unwrap(witem[w])
           err  == Unwrap(from_str(item.crate_name, item.semver, resolver[item.crate_name].err))
       IN  resolve_errors' = Append(buf[w], err)
    /\ guard' = NoneVal
    /\ buf' = [buf EXCEPT ![w] = <<>>]
    /\ EndItem(w, "failed", "Ok")
    /\ UNCHANGED << cache, run, index, pending, ctx, NEXT_THREAD_ID, position, report,
                    invoked, created, uses >>
    /\ UNCHANGED envVars
    /\ UNCHANGED << tailVars, loadVars, torn, graphVars, walkVars >>

\* lines 192-201 and 401: try_for_each returned Ok, the "Resolved" line is
\* printed and main returns Ok(())
Finish ==
    /\ mainpc = "resolve"
    /\ pending = {}
    /\ \A w \in Workers : wpc[w] = "idle"
    /\ report' = Some([total |-> Cardinality(DOMAIN Index), unresolvable |-> Len(resolve_errors)])
    /\ mainpc' = "done"
    /\ UNCHANGED << cache, run, index, pending, wpc, witem, ctx, NEXT_THREAD_ID,
                    resolve_errors, guard, buf, position >>
    /\ UNCHANGED envVars
    /\ UNCHANGED << tailVars, loadVars, torn, graphVars, walkVars >>
    /\ UNCHANGED histVars

\* the program is started again over the same index and lock-files directory
NextRun ==
    /\ mainpc = "done"
    /\ run < MaxRuns
    /\ run' = run + 1
    /\ mainpc' = "parse"
    /\ index' = NoneVal
    /\ pending' = {}
    /\ wpc' = [w \in Workers |-> "idle"]
    /\ witem' = [w \in Workers |-> NoneVal]
    /\ ctx' = [w \in Workers |-> NoneVal]
    /\ NEXT_THREAD_ID' = 1
    /\ resolve_errors' = <<>>
    /\ guard' = NoneVal
    /\ buf' = [w \in Workers |-> <<>>]
    /\ position' = 0
    /\ report' = NoneVal
    /\ created' = [w \in Workers |-> 0]
    /\ uses' = {}
    /\ UNCHANGED << cache, invoked, outcome >>
    /\ UNCHANGED envVars
    /\ UNCHANGED << tailVars, loadVars, torn, graphVars, walkVars >>

\* the classifier on its own: ResolveError::from_str on one text
Classify ==
    /\ ~IsSome(classified)
    /\ classified' = Some(from_str("a", Unwrap(SemverParse(V100)), value))
    /\ UNCHANGED << files, resolver, value, cache, run, mainpc, index, pending, wpc,
                    witem, ctx, NEXT_THREAD_ID, resolve_errors, guard, buf, position,
                    report >>
    /\ UNCHANGED histVars
    /\ UNCHANGED << tailVars, loadVars, torn, graphVars, walkVars >>

Next ==
    \/ ParseIndex
    \/ \E w \in Workers : Pull(w)
    \/ \E w \in Workers : WithContext(w)
    \/ \E w \in Workers : SynthWorkspace(w)
    \/ \E w \in Workers : LoadLockfile(w)
    \/ \E w \in Workers : Resolve(w)
    \/ \E w \in Workers : WriteLockfile(w)
    \/ \E w \in Workers : Lock(w)
    \/ \E w \in Workers : Push(w)
    \/ Finish
    \/ NextRun

Spec == Init /\ [][Next]_vars

NextIndex ==
    \/ ParseIndex
    \/ \E w \in Workers : Pull(w)

SpecIndex == InitIndex /\ [][NextIndex]_vars

NextClassify == Classify

SpecClassify == InitClassify /\ [][NextClassify]_vars

\* ---------------------------------------------------------- properties
PackageNames == DOMAIN files
RECURSIVE InvokedUpTo(_, _)
InvokedUpTo(p, r) == IF r = 0 THEN 0 ELSE invoked[r][p] + InvokedUpTo(p, r - 1)
TotalInvoked(p) == InvokedUpTo(p, MaxRuns)
NonYankedKeys(p) == {Index[p][i].key : i \in {j \in 1..Len(Index[p]) : ~Index[p][j].val.yanked}}
HasNonYanked(p) == NonYankedKeys(p) # {}
RunComplete == mainpc = "done"

UnclassifiedAborts ==
    RunComplete => \A p \in PackageNames : outcome[run][p] # "unclassified"

\* C4: every item that failed with a classified diagnostic has exactly one
\* record in resolve_errors, no record is there twice or for anything else,
\* the batch goes on, and at completion the list is exactly those records.
FailureRecorded(p) ==
    \E i \in 1..Len(resolve_errors) :
        /\ resolve_errors[i].crate_name = p
        /\ resolve_errors[i].kind = "DependencyFullyYanked"
        /\ resolve_errors[i].version \in NonYankedKeys(p)
ExactlyOneFailureRecord ==
    /\ \A i \in 1..Len(resolve_errors) : \A j \in 1..Len(resolve_errors) :
           resolve_errors[i].crate_name = resolve_errors[j].crate_name => i = j
    /\ \A i \in 1..Len(resolve_errors) :
           LET p == resolve_errors[i].crate_name
           IN  /\ ~resolver[p].ok
               /\ Contains(resolver[p].err, PSelect) /\ Contains(resolver[p].err, PYanked)
    /\ \A p \in PackageNames : outcome[run][p] = "failed" => FailureRecorded(p)
    /\ RunComplete =>
           /\ Len(resolve_errors) = Cardinality({p \in PackageNames : outcome[run][p] = "failed"})
           /\ \A p \in PackageNames : outcome[run][p] # "none"

ExactlyOneFailureRecordWitness ==
    /\ RunComplete
    /\ Len(resolve_errors) = 2
    /\ \A p \in PackageNames : outcome[run][p] = "failed"

\* C5: an item whose workspace cannot be synthesised is recorded as a
\* failure of that package-version, and the batch is not aborted.
SynthesisFailureRecorded ==
    \A p \in PackageNames :
        outcome[run][p] = "synth_error"
            => /\ mainpc # "failed"
               /\ \E i \in 1..Len(resolve_errors) : resolve_errors[i].crate_name = p

\* C6: a worker forces its context at most once, on its first item, and uses
\* no other; no context is used by two workers; no two workers have the same
\* id or the same cargo home.
ContextAffinity ==
    /\ \A w \in Workers :
        /\ created[w] <= 1
        /\ IsSome(ctx[w]) <=> created[w] = 1
        /\ wpc[w] \notin {"idle", "ctx"} => IsSome(ctx[w]) /\ Unwrap(ctx[w]).ok
        /\ \A u \in uses : u.worker = w => IsSome(ctx[w]) /\ u.id = Unwrap(ctx[w]).id
    /\ \A u1 \in uses : \A u2 \in uses : u1.id = u2.id => u1.worker = u2.worker
    /\ \A w1 \in Workers : \A w2 \in Workers :
        (w1 # w2 /\ IsSome(ctx[w1]) /\ IsSome(ctx[w2]))
            => /\ Unwrap(ctx[w1]).id # Unwrap(ctx[w2]).id
               /\ Unwrap(ctx[w1]).home # Unwrap(ctx[w2]).home

ContextAffinityWitness ==
    /\ \E w1 \in Workers : \E w2 \in Workers :
        /\ w1 # w2
        /\ [worker |-> w1, id |-> 1] \in uses
        /\ [worker |-> w2, id |-> 2] \in uses
    /\ RunComplete

\* C7 as claimed: a package without a non-yanked version is counted apart
\* from the packages that were processed: neither the progress count nor
\* the number in the final line includes it.
SkippedPackages == {p \in PackageNames : outcome[run][p] = "skipped"}
SkippedCountedApart ==
    RunComplete =>
        /\ position = Cardinality(PackageNames \ SkippedPackages)
        /\ Unwrap(report).total = Cardinality(PackageNames \ SkippedPackages)

\* C7 as amended: a package all of whose versions are yanked yields no work
\* item, is never given to the resolver and gets no failure record; it
\* advances the one progress counter that every work item advances and is
\* part of the total of the final line: no separate skipped count exists.
SkippedNeverProcessed ==
    IsSome(index) =>
        /\ \A p \in PackageNames : ~HasNonYanked(p) =>
            /\ \A r \in 1..run : invoked[r][p] = 0
            /\ \A r \in 1..run : outcome[r][p] \in {"none", "skipped"}
            /\ \A w \in Workers : IsSome(witem[w]) => Unwrap(witem[w]).crate_name # p
            /\ \A i \in 1..Len(resolve_errors) : resolve_errors[i].crate_name # p
            /\ RunComplete => outcome[run][p] = "skipped"
        /\ position = Cardinality(PackageNames \ pending)
        /\ RunComplete =>
            /\ position = Cardinality(PackageNames)
            /\ Unwrap(report).total = Cardinality(PackageNames)

SkippedNeverProcessedWitness ==
    /\ RunComplete
    /\ \E p \in PackageNames : \E q \in PackageNames :
        /\ outcome[run][p] = "skipped"
        /\ outcome[run][q] = "resolved"
        /\ Unwrap(report).total = 2

\* C8: the version the iterator selects for a package is a non-yanked entry
\* of its version map, no non-yanked entry has a greater semantic version,
\* and nothing is selected exactly when every entry is yanked; for
\* [1.0.0 yanked, 1.1.0, 2.0.0] it is 2.0.0.
FileExample == << Record(V100, TRUE, NoneVal), Record(V110, FALSE, NoneVal), Record(V200, FALSE, NoneVal) >>
ItemsOf(p) == {Unwrap(witem[w]) : w \in {x \in Workers : IsSome(witem[x]) /\ Unwrap(witem[x]).crate_name = p}}
LatestNonYankedIsGreatest ==
    IsSome(index) => \A p \in PackageNames :
        /\ \A item \in ItemsOf(p) :
            /\ ~item.version.yanked
            /\ \E i \in 1..Len(Index[p]) : Index[p][i] = [key |-> item.semver, val |-> item.version]
            /\ \A k \in NonYankedKeys(p) : ~SemverLess(item.semver, k)
        /\ p \notin pending => (outcome[run][p] = "skipped" <=> ~HasNonYanked(p))
        /\ p \notin pending => (ItemsOf(p) # {} <=> HasNonYanked(p))
        /\ (p \notin pending /\ files[p] = FileExample) => \A item \in ItemsOf(p) : item.version.vers = V200

LatestNonYankedIsGreatestWitness ==
    /\ files["a"] = FileExample
    /\ \E item \in ItemsOf("a") : item.version.vers = V200 /\ item.semver = Unwrap(SemverParse(V200))

\* C9: from_str gives DependencyFullyYanked for a text with both "failed to
\* select a version for the requirement" and "is yanked", CyclicDependency
\* for a text with "cyclic package dependency", and none for a text with
\* none of the patterns.
KindOf(r) == IF IsSome(r) THEN Unwrap(r).kind ELSE "none"
ClassifyAsSpecified ==
    IsSome(classified) =>
        LET kind == KindOf(Unwrap(classified))
            yanked == Contains(value, PSelect) /\ Contains(value, PYanked)
            unavailable == Contains(value, PSelect) /\ Contains(value, PUnavailable)
            cyclic == Contains(value, PCyclic)
        IN  /\ yanked => kind = "DependencyFullyYanked"
            /\ (cyclic /\ ~yanked /\ ~unavailable) => kind = "CyclicDependency"
            /\ (~yanked /\ ~unavailable /\ ~cyclic) => kind = "none"

\* C10: after a successful load every package's version map is strictly
\* ascending by semantic version (hence without duplicates), whatever the
\* order of the records in the file, and its keys are the versions of the
\* file's records.
IndexStrictlyAscending ==
    IsSome(index) => \A p \in PackageNames :
        /\ \A i \in 1..Len(Index[p]) : \A j \in 1..Len(Index[p]) :
               i < j => SemverLess(Index[p][i].key, Index[p][j].key)
        /\ \A i \in 1..Len(Index[p]) : Index[p][i].key = Unwrap(SemverParse(Index[p][i].val.vers))
        /\ {Index[p][i].key : i \in 1..Len(Index[p])}
               = {Unwrap(SemverParse(files[p][i].vers)) : i \in 1..Len(files[p])}

IndexStrictlyAscendingWitness ==
    /\ files["a"] = << Record(V200, FALSE, NoneVal), Record(V100, FALSE, NoneVal), Record(V200, TRUE, NoneVal) >>
    /\ IsSome(index)
    /\ Len(Index["a"]) = 2
    /\ Index["a"][2].val.yanked

\* ------------------------------------------------ the load, task by task
\* parse_index runs its closure once per file on the pool (par_bridge) and
\* collects the Results; ParseIndex above is the same load in one step.
LoadPackages == {"a", "b", "c"}
FileMalformed == << Record(V100, FALSE, NoneVal), MalformedLine >>
FileLateBad == << Record(V110, FALSE, NoneVal), Record(VLead, FALSE, NoneVal) >>
LoadFiles == {FileMixed, FileYanked, FileBadVers, FileMalformed, FileLateBad}

InitLoad ==
    /\ files \in [LoadPackages -> LoadFiles]
    /\ resolver = [p \in LoadPackages |-> ResolveOk]
    /\ cache = {}
    /\ run = 1
    /\ ProcessInit
    /\ HistInit(LoadPackages)
    /\ value = <<>>
    /\ classified = NoneVal
    /\ RestInit

\* index.rs lines 61-73: the closure on one directory entry
ParseEntry(p) ==
    /\ mainpc = "parse"
    /\ p \in DOMAIN files
    /\ ~IsSome(parsed[p])
    /\ parsed' = [parsed EXCEPT ![p] = Some(parse_file(files[p]))]
    /\ UNCHANGED << cache, run, mainpc, index, pending, wpc, witem, ctx, NEXT_THREAD_ID,
                    resolve_errors, guard, buf, position, report >>
    /\ UNCHANGED envVars
    /\ UNCHANGED histVars
    /\ UNCHANGED << tailVars, torn, graphVars, walkVars >>

\* collect::<anyhow::Result<HashMap<..>>>() over the closures that ran: an
\* Err of any of them is the result, otherwise the map of all of them
collect_partial(done) ==
    Some([p \in {q \in DOMAIN done : IsSome(done[q])} |-> Unwrap(done[p])])
collect(done) ==
    IF \E p \in DOMAIN done : ~IsSome(done[p])
    THEN NoneVal
    ELSE Some([p \in DOMAIN done |-> Unwrap(done[p])])

Finished == {p \in DOMAIN parsed : IsSome(parsed[p])}

\* index.rs line 74 and main.rs line 119: the collect ends once every
\* closure has run, or early once one of them returned an Err; main returns
\* the Err by '?'
CollectIndex ==
    /\ mainpc = "parse"
    /\ \/ Finished = DOMAIN parsed
       \/ \E p \in Finished : ~IsSome(Unwrap(parsed[p]))
    /\ LET res == collect([p \in Finished |-> Unwrap(parsed[p])])
       IN  IF IsSome(res)
           THEN /\ index' = res
                /\ pending' = DOMAIN Unwrap(res)
                /\ mainpc' = "resolve"
           ELSE /\ mainpc' = "failed"
                /\ UNCHANGED << index, pending >>
    /\ UNCHANGED << cache, run, wpc, witem, ctx, NEXT_THREAD_ID, resolve_errors,
                    guard, buf, position, report >>
    /\ UNCHANGED envVars
    /\ UNCHANGED histVars
    /\ UNCHANGED << tailVars, loadVars, torn, graphVars, walkVars >>

NextLoad ==
    \/ \E p \in LoadPackages : ParseEntry(p)
    \/ CollectIndex

SpecLoad == InitLoad /\ [][NextLoad]_vars

\* C11: when any line of any file is not JSON or carries a version that is
\* not a semantic version, the load ends in an error and there is no index,
\* not even of the well-formed packages, in whatever order the per-file
\* closures ran; an index that exists covers every file.
BadLine(line) == ~json_line_ok(line) \/ ~IsSome(SemverParse(line.vers))
BadFile(file) == \E i \in 1..Len(file) : BadLine(file[i])
LoadAllOrNothing ==
    /\ (\E p \in PackageNames : BadFile(files[p])) => ~IsSome(index) /\ mainpc \in {"parse", "failed"}
    /\ mainpc = "failed" => ~IsSome(index) /\ \E p \in PackageNames : BadFile(files[p])
    /\ IsSome(index) => DOMAIN Index = PackageNames
    /\ mainpc # "parse" => index = parse_index(files)

LoadAllOrNothingWitness ==
    /\ mainpc = "failed"
    /\ ~IsSome(index)
    /\ \E p \in Finished : IsSome(Unwrap(parsed[p]))
    /\ \E p \in Finished : ~IsSome(Unwrap(parsed[p]))
    /\ \E p \in PackageNames : ~BadFile(files[p]) /\ p \notin Finished

\* C16: from_str returns the kind of the first pattern of the priority list
\* that matches: within "failed to select a version for the requirement",
\* "is yanked" gives DependencyFullyYanked and otherwise "is unavailable"
\* gives UnavailableDependency; without it, "cyclic package dependency"
\* gives CyclicDependency.
ClassifyByPriority ==
    IsSome(classified) =>
        LET kind == KindOf(Unwrap(classified))
            select == Contains(value, PSelect)
        IN  /\ (select /\ Contains(value, PYanked)) => kind = "DependencyFullyYanked"
            /\ (select /\ ~Contains(value, PYanked) /\ Contains(value, PUnavailable))
                   => kind = "UnavailableDependency"
            /\ (~select /\ Contains(value, PCyclic)) => kind = "CyclicDependency"
            /\ kind \in {"none", "DependencyFullyYanked", "UnavailableDependency", "CyclicDependency",
                         "AllPossibleVersionsConflictWithPreviouslySelected", "NoMatchingPackageFound",
                         "CandidateVersionsFoundDidntMatch", "FeatureConflict", "IndexEntryIsInvalid"}

\* ------------------------------------------------- version requirements
\* semver::VersionReq::parse for one comparator: "*", or an optional "^" or
\* "=" and MAJOR[.MINOR[.PATCH]]; an absent component is -1.  (Other
\* operators, comparator lists and pre-release tags are not among the
\* modelled requirement strings.)
ReqParse(s) ==
    IF s = << "*" >> THEN Some([op |-> "*", major |-> -1, minor |-> -1, patch |-> -1])
    ELSE IF s = <<>> THEN NoneVal
    ELSE LET op    == IF s[1] \in {"^", "="} THEN s[1] ELSE "^"
             rest  == IF s[1] \in {"^", "="} THEN Tail(s) ELSE s
             parts == Split(rest, ".")
             part(i) == IF i <= Len(parts) THEN ToNat(parts[i]) ELSE -1
         IN  IF Len(parts) \in 1..3 /\ \A i \in 1..Len(parts) : NumericIdent(parts[i])
             THEN Some([op |-> op, major |-> part(1), minor |-> part(2), patch |-> part(3)])
             ELSE NoneVal

\* semver: matches_exact and matches_caret
MatchesExact(c, v) ==
    /\ v.major = c.major
    /\ c.minor = -1 \/ v.minor = c.minor
    /\ c.patch = -1 \/ v.patch = c.patch
MatchesCaret(c, v) ==
    IF v.major # c.major THEN FALSE
    ELSE IF c.minor = -1 THEN TRUE
    ELSE IF c.patch = -1 THEN (IF c.major > 0 THEN v.minor >= c.minor ELSE v.minor = c.minor)
    ELSE IF c.major > 0
         THEN (IF v.minor # c.minor THEN v.minor > c.minor ELSE v.patch >= c.patch)
    ELSE IF c.minor > 0
         THEN (IF v.minor # c.minor THEN FALSE ELSE v.patch >= c.patch)
    ELSE v.minor = c.minor /\ v.patch = c.patch

\* VersionReq::matches: a pre-release version matches only a comparator
\* that names a pre-release, and none of the modelled ones does
ReqMatches(c, v) ==
    /\ v.pre = <<>>
    /\ CASE c.op = "*" -> TRUE
         [] c.op = "=" -> MatchesExact(c, v)
         [] OTHER -> MatchesCaret(c, v)

ReqCaret10 == << "^", "1", ".", "0" >>              \* "^1.0"
ReqCaret1 == << "1" >>                              \* "1"
ReqEq100 == << "=", "1", ".", "0", ".", "0" >>      \* "=1.0.0"
ReqEq200 == << "=", "2", ".", "0", ".", "0" >>      \* "=2.0.0"
ReqBad == << "b", "a", "c" >>                       \* does not parse
V120 == << "1", ".", "2", ".", "0" >>
V150 == << "1", ".", "5", ".", "0" >>
RV170 == << "1", ".", "7", "0" >>                   \* rust-version "1.70"

\* ------------------------------------------- the reverse index (build)
\* crates_index::Dependency, as far as the build reads it
Dep(name, req, kind) == [name |-> name, req |-> req, kind |-> kind]

\* line 242: req.matches(dependency_semver) && !dependency_version.is_yanked()
accepts_yanked(c, entry) == ReqMatches(c, entry.key)
accepts(c, entry) == ReqMatches(c, entry.key) /\ ~entry.val.yanked

\* lines 239-244: dependency_versions.iter().rev().find(..)
RECURSIVE FindLastAccepted(_, _, _)
FindLastAccepted(m, i, c) ==
    IF i = 0 THEN NoneVal
    ELSE IF accepts(c, m[i]) THEN Some(m[i])
    ELSE FindLastAccepted(m, i - 1, c)
RECURSIVE FindFirstAccepted(_, _, _)
FindFirstAccepted(m, i, c) ==
    IF i > Len(m) THEN NoneVal
    ELSE IF accepts(c, m[i]) THEN Some(m[i])
    ELSE FindFirstAccepted(m, i + 1, c)
find_version_lowest(m, c) == FindFirstAccepted(m, 1, c)
find_version(m, c) == FindLastAccepted(m, Len(m), c)

\* lines 213-252: the target of one dependency, or None where the loop
\* says continue (a Dev dependency, a crate that is not in the index, a
\* requirement that does not parse, no version accepted)
edge_target(idx, dependency) ==
    IF dependency.kind = "Dev" THEN NoneVal
    ELSE IF dependency.name \notin DOMAIN idx THEN NoneVal
    ELSE IF ~IsSome(ReqParse(dependency.req)) THEN NoneVal
    ELSE LET found == find_version(idx[dependency.name], Unwrap(ReqParse(dependency.req)))
         IN  IF IsSome(found)
             THEN Some([crate |-> dependency.name, semver |-> Unwrap(found).key])
             ELSE NoneVal

\* lines 254-259: entry(crate).or_default().entry(semver).or_default().insert(dependent)
dash_insert_replace(ri, crate, semver, dependent) ==
    {e \in ri : ~(e.crate = crate /\ e.semver = semver)}
        \cup {[crate |-> crate, semver |-> semver, dependent |-> dependent]}
dash_insert(ri, crate, semver, dependent) ==
    ri \cup {[crate |-> crate, semver |-> semver, dependent |-> dependent]}

\* the loops of lines 208-213: from position c of package p, the next
\* dependency of a version that is not yanked (v past the end: none left)
RECURSIVE NextDependency(_, _)
NextDependency(versions, c) ==
    IF c.v > Len(versions) THEN c
    ELSE IF versions[c.v].val.yanked \/ c.d > Len(versions[c.v].val.dependencies)
         THEN NextDependency(versions, [v |-> c.v + 1, d |-> 1])
    ELSE c

\* continue: the loop goes on with the next dependency of the version
continue_break(c, n) == [v |-> c.v, d |-> n + 1]
continue(c, n) == [v |-> c.v, d |-> c.d + 1]

TaskDone(p) == NextDependency(Index[p], cursor[p]).v > Len(Index[p])

\* one turn of the loop of line 213 in the task of package p (par_iter runs
\* one task per package, in any interleaving)
BuildStep(p) ==
    /\ mainpc = "index"
    /\ p \in DOMAIN Index
    /\ ~TaskDone(p)
    /\ LET c == NextDependency(Index[p], cursor[p])
           version == Index[p][c.v]
           dependency == version.val.dependencies[c.d]
           target == edge_target(Index, dependency)
           dependent == [crate |-> p, semver |-> version.key]
       IN  IF IsSome(target)
           THEN /\ reverse_index' = dash_insert(reverse_index, Unwrap(target).crate,
                                                Unwrap(target).semver, dependent)
                /\ accepted' = accepted \cup {[dependent |-> dependent, d |-> c.d,
                                               crate |-> Unwrap(target).crate,
                                               semver |-> Unwrap(target).semver]}
                /\ cursor' = [cursor EXCEPT ![p] = [v |-> c.v, d |-> c.d + 1]]
           ELSE /\ cursor' = [cursor EXCEPT ![p] = continue(c, Len(version.val.dependencies))]
                /\ UNCHANGED << reverse_index, accepted >>
    /\ UNCHANGED << cache, run, mainpc, index, pending, wpc, witem, ctx, NEXT_THREAD_ID,
                    resolve_errors, guard, buf, position, report, search >>
    /\ UNCHANGED envVars
    /\ UNCHANGED histVars
    /\ UNCHANGED << tailVars, loadVars, torn, walkVars >>

\* lines 264-266: every task returned Ok, try_for_each is Ok
BuildFinish ==
    /\ mainpc = "index"
    /\ \A p \in DOMAIN Index : TaskDone(p)
    /\ mainpc' = "walk"
    /\ UNCHANGED << cache, run, index, pending, wpc, witem, ctx, NEXT_THREAD_ID,
                    resolve_errors, guard, buf, position, report >>
    /\ UNCHANGED envVars
    /\ UNCHANGED histVars
    /\ UNCHANGED << tailVars, loadVars, torn, graphVars, walkVars >>

\* ------------------------------------------------------------- the walk
Pair(crate, semver) == [crate |-> crate, semver |-> semver]

\* every order in which a set can be iterated
Orders(S) ==
    {f \in [1..Cardinality(S) -> S] : \A i, j \in 1..Cardinality(S) : f[i] = f[j] => i = j}

\* lines 275-277: .filter(|(semver, _)| SEARCH_REQ.matches(semver))
seed_filter_none(c, semver) == TRUE
seed_filter(c, semver) == ReqMatches(c, semver)

\* lines 274-281: the versions of the searched crate, in map order
RECURSIVE SeedsFrom(_, _, _, _)
SeedsFrom(crate, versions, i, c) ==
    IF i > Len(versions) THEN <<>>
    ELSE (IF seed_filter(c, versions[i].key) THEN << Pair(crate, versions[i].key) >> ELSE <<>>)
             \o SeedsFrom(crate, versions, i + 1, c)
Seeds(idx, s) ==
    IF s.crate \in DOMAIN idx
    THEN SeedsFrom(s.crate, idx[s.crate], 1, Unwrap(ReqParse(s.req)))
    ELSE <<>>

\* line 288: HashSet::insert is true when the value was not in the set
hashset_insert_always(set, x) == TRUE
hashset_insert(set, x) == x \notin set

\* lines 283-285: the dependents recorded under (crate_name, semver)
Dependents(ri, node) ==
    {e.dependent : e \in {x \in ri : x.crate = node.crate /\ x.semver = node.semver}}

RECURSIVE Filter(_, _, _)
Filter(order, i, seen) ==
    IF i > Len(order) THEN <<>>
    ELSE (IF hashset_insert(seen, order[i]) THEN << order[i] >> ELSE <<>>)
             \o Filter(order, i + 1, seen)

\* lines 272-281
WalkSeed ==
    /\ mainpc = "walk"
    /\ queue' = Seeds(Index, search)
    /\ reverse_dependencies' = {}
    /\ mainpc' = "walking"
    /\ UNCHANGED << pushed, popped >>
    /\ UNCHANGED << cache, run, index, pending, wpc, witem, ctx, NEXT_THREAD_ID,
                    resolve_errors, guard, buf, position, report >>
    /\ UNCHANGED envVars
    /\ UNCHANGED histVars
    /\ UNCHANGED << tailVars, loadVars, torn, graphVars >>

\* lines 282-294: one turn of the while loop; the set of dependents is
\* iterated in any order
WalkStep ==
    /\ mainpc = "walking"
    /\ queue # <<>>
    /\ \E order \in Orders(Dependents(reverse_index, Head(queue))) :
          LET new == Filter(order, 1, reverse_dependencies)
          IN  /\ queue' = Tail(queue) \o new
              /\ reverse_dependencies' = reverse_dependencies \cup {new[i] : i \in 1..Len(new)}
              /\ pushed' = pushed \o new
    /\ popped' = Append(popped, Head(queue))
    /\ UNCHANGED << cache, run, mainpc, index, pending, wpc, witem, ctx, NEXT_THREAD_ID,
                    resolve_errors, guard, buf, position, report >>
    /\ UNCHANGED envVars
    /\ UNCHANGED histVars
    /\ UNCHANGED << tailVars, loadVars, torn, graphVars >>

\* line 282: pop_front is None, the loop ends
WalkFinish ==
    /\ mainpc = "walking"
    /\ queue = <<>>
    /\ mainpc' = "walked"
    /\ UNCHANGED << cache, run, index, pending, wpc, witem, ctx, NEXT_THREAD_ID,
                    resolve_errors, guard, buf, position, report >>
    /\ UNCHANGED envVars
    /\ UNCHANGED histVars
    /\ UNCHANGED << tailVars, loadVars, torn, graphVars, walkVars >>

\* ------------------------------------------------- indexes for the graph
GraphPackages == {"a", "b", "c", "d"}
NoDeps == <<>>
OnA == Dep("a", ReqCaret10, "Normal")
OnB == Dep("b", ReqCaret10, "Normal")
OnC == Dep("c", ReqCaret1, "Build")

\* the searched crate: one version; 1.0.0, 1.2.0 yanked, 1.5.0; one version
\* that itself depends on c; 1.0.0 and a yanked 1.1.0
FilesA ==
    { << RecordWith(V100, FALSE, NoneVal, NoDeps) >>,
      << RecordWith(V100, FALSE, NoneVal, NoDeps), RecordWith(V120, TRUE, NoneVal, NoDeps),
         RecordWith(V150, FALSE, NoneVal, NoDeps) >>,
      << RecordWith(V100, FALSE, NoneVal, << OnC >>) >>,
      << RecordWith(V100, FALSE, NoneVal, NoDeps), RecordWith(V110, TRUE, NoneVal, NoDeps) >> }
\* dependents of a: one version, two versions, dropped dependencies around
\* a good one, a yanked dependent, two requirements on the same crate
FilesB ==
    { << RecordWith(V100, FALSE, NoneVal, << OnA >>) >>,
      << RecordWith(V100, FALSE, NoneVal, << OnA >>),
         RecordWith(V110, FALSE, NoneVal, << OnA >>) >>,
      << RecordWith(V100, FALSE, NoneVal,
                    << Dep("x", ReqCaret10, "Normal"), Dep("a", ReqBad, "Normal"),
                       Dep("a", ReqEq200, "Normal"), OnA >>) >>,
      << RecordWith(V100, FALSE, NoneVal, << Dep("a", ReqCaret10, "Dev") >>) >>,
      << RecordWith(V100, TRUE, NoneVal, << OnA >>),
         RecordWith(V110, FALSE, NoneVal, << Dep("a", ReqEq100, "Normal"), OnA >>) >> }
FilesC ==
    { << RecordWith(V100, FALSE, Some(RV162), << OnB >>) >>,
      << RecordWith(V100, FALSE, Some(RV170), << OnA >>) >>,
      << RecordWith(V100, FALSE, Some(RVBad), << OnA, OnB >>) >>,
      << RecordWith(V100, FALSE, NoneVal, << Dep("b", ReqEq100, "Normal") >>) >>,
      << RecordWith(V100, FALSE, NoneVal, NoDeps) >> }
FilesD ==
    { << RecordWith(V100, FALSE, NoneVal, << OnB, OnC >>) >>,
      << RecordWith(V100, TRUE, NoneVal, << OnB >>) >>,
      << RecordWith(V100, FALSE, NoneVal, NoDeps) >> }

\* lines 52-54: the searched crate and requirement
Searches == { [crate |-> "a", req |-> ReqCaret10], [crate |-> "a", req |-> ReqEq100] }

InitGraph ==
    /\ files \in {f \in [GraphPackages -> FilesA \cup FilesB \cup FilesC \cup FilesD] :
                     /\ f["a"] \in FilesA
                     /\ f["b"] \in FilesB
                     /\ f["c"] \in FilesC
                     /\ f["d"] \in FilesD}
    /\ resolver = [p \in GraphPackages |-> ResolveOk]
    /\ value = <<>>
    /\ classified = NoneVal
    /\ cache = {}
    /\ run = 1
    /\ mainpc = "index"
    /\ index = parse_index(files)
    /\ pending = {}
    /\ wpc = [w \in Workers |-> "idle"]
    /\ witem = [w \in Workers |-> NoneVal]
    /\ ctx = [w \in Workers |-> NoneVal]
    /\ NEXT_THREAD_ID = 1
    /\ resolve_errors = <<>>
    /\ guard = NoneVal
    /\ buf = [w \in Workers |-> <<>>]
    /\ position = 0
    /\ report = NoneVal
    /\ HistInit(GraphPackages)
    /\ parsed = [p \in GraphPackages |-> NoneVal]
    /\ torn = {}
    /\ search \in Searches
    /\ reverse_index = {}
    /\ cursor = [p \in GraphPackages |-> [v |-> 1, d |-> 1]]
    /\ accepted = {}
    /\ queue = <<>>
    /\ reverse_dependencies = {}
    /\ pushed = <<>>
    /\ popped = <<>>
    /\ TailInit

\* ---------------------------------------------------------- the filters
\* the versions of a crate in the index, by semantic version
EntriesOf(idx, crate, semver) ==
    IF crate \in DOMAIN idx
    THEN {idx[crate][i] : i \in {j \in 1..Len(idx[crate]) : idx[crate][j].key = semver}}
    ELSE {}

\* main.rs line 55: SEARCH_MSRV, 1.62.1
SEARCH_MSRV == Unwrap(SemverParse(<< "1", ".", "6", "2", ".", "1" >>))

\* lines 310-323: the closure of the latest-version filter
latest_filter_any(idx, pair) ==
    IF pair.crate \notin DOMAIN idx THEN FALSE
    ELSE IF idx[pair.crate] = <<>> THEN FALSE
    ELSE idx[pair.crate][Len(idx[pair.crate])].key = pair.semver
latest_filter(idx, pair) ==
    IF pair.crate \notin DOMAIN idx THEN FALSE
    ELSE LET latest == FindLast(idx[pair.crate], Len(idx[pair.crate]))
         IN  IF ~IsSome(latest) THEN FALSE
             ELSE Unwrap(latest).key = pair.semver

\* lines 343-362: the closure of the msrv filter; the rust_version string
\* is parsed as a semver::VersionReq and matched against SEARCH_MSRV
msrv_filter(idx, pair) ==
    IF pair.crate \notin DOMAIN idx THEN FALSE
    ELSE IF EntriesOf(idx, pair.crate, pair.semver) = {} THEN FALSE
    ELSE LET version == (CHOOSE e \in EntriesOf(idx, pair.crate, pair.semver) : TRUE).val
         IN  IF ~IsSome(version.rust_version) THEN TRUE
             ELSE IF ~IsSome(ReqParse(Unwrap(version.rust_version))) THEN TRUE
             ELSE ReqMatches(Unwrap(ReqParse(Unwrap(version.rust_version))), SEARCH_MSRV)

\* lines 382-385: reverse_index.get(crate_name).is_none()
leaf_filter_by_version(ri, pair) ==
    ~\E e \in ri : e.crate = pair.crate /\ e.semver = pair.semver
leaf_filter(ri, pair) == ~\E e \in ri : e.crate = pair.crate

\* lines 308-325
FilterLatest ==
    /\ mainpc = "walked"
    /\ filter_input' = reverse_dependencies
    /\ filtered_reverse_dependencies' = {x \in reverse_dependencies : latest_filter(Index, x)}
    /\ mainpc' = "latest"
    /\ UNCHANGED << cache, run, index, pending, wpc, witem, ctx, NEXT_THREAD_ID,
                    resolve_errors, guard, buf, position, report >>
    /\ UNCHANGED envVars
    /\ UNCHANGED histVars
    /\ UNCHANGED << fnVars, krateVars, loadVars, torn, graphVars, walkVars >>

\* lines 340-364
FilterMsrv ==
    /\ mainpc = "latest"
    /\ filter_input' = filtered_reverse_dependencies
    /\ filtered_reverse_dependencies' =
          {x \in filtered_reverse_dependencies : msrv_filter(Index, x)}
    /\ mainpc' = "msrv"
    /\ UNCHANGED << cache, run, index, pending, wpc, witem, ctx, NEXT_THREAD_ID,
                    resolve_errors, guard, buf, position, report >>
    /\ UNCHANGED envVars
    /\ UNCHANGED histVars
    /\ UNCHANGED << fnVars, krateVars, loadVars, torn, graphVars, walkVars >>

\* lines 379-387
FilterLeaf ==
    /\ mainpc = "msrv"
    /\ filter_input' = filtered_reverse_dependencies
    /\ filtered_reverse_dependencies' =
          {x \in filtered_reverse_dependencies : leaf_filter(reverse_index, x)}
    /\ mainpc' = "leaf"
    /\ UNCHANGED << cache, run, index, pending, wpc, witem, ctx, NEXT_THREAD_ID,
                    resolve_errors, guard, buf, position, report >>
    /\ UNCHANGED envVars
    /\ UNCHANGED histVars
    /\ UNCHANGED << fnVars, krateVars, loadVars, torn, graphVars, walkVars >>

NextGraph ==
    \/ \E p \in GraphPackages : BuildStep(p)
    \/ BuildFinish
    \/ WalkSeed
    \/ WalkStep
    \/ WalkFinish
    \/ FilterLatest
    \/ FilterMsrv
    \/ FilterLeaf

SpecGraph == InitGraph /\ [][NextGraph]_vars

\* ---------------------------------------------- the reverse index, checked
\* the non-yanked versions of a crate that a requirement string admits
Candidates(idx, crate, req) ==
    IF crate \in DOMAIN idx /\ IsSome(ReqParse(req))
    THEN {idx[crate][i].key : i \in {j \in 1..Len(idx[crate]) :
              /\ ~idx[crate][j].val.yanked
              /\ ReqMatches(Unwrap(ReqParse(req)), idx[crate][j].key)}}
    ELSE {}
Highest(S) == CHOOSE x \in S : \A y \in S : ~SemverLess(x, y)

\* the dependencies of an indexed version, as (position, dependency)
DepsOf(idx, crate, semver) ==
    UNION {{[d |-> d, dep |-> e.val.dependencies[d]] : d \in 1..Len(e.val.dependencies)} :
              e \in EntriesOf(idx, crate, semver)}

\* C12: every edge of the reverse index, at every moment of the build and
\* after it, goes from a dependent version that is not yanked to a target
\* version that is not yanked and satisfies the requirement of a dependency
\* of the dependent on the target crate whose kind is not Dev.
EdgeInvariant ==
    \A e \in reverse_index :
        /\ \E x \in EntriesOf(Index, e.dependent.crate, e.dependent.semver) : ~x.val.yanked
        /\ \E x \in EntriesOf(Index, e.crate, e.semver) : ~x.val.yanked
        /\ \E x \in DepsOf(Index, e.dependent.crate, e.dependent.semver) :
              /\ x.dep.name = e.crate
              /\ x.dep.kind # "Dev"
              /\ e.semver \in Candidates(Index, e.crate, x.dep.req)
\* an edge exists while the tasks are still running, in an index with a
\* yanked greatest version of the target
EdgeInvariantWitness ==
    /\ mainpc = "index"
    /\ reverse_index # {}
    /\ \E i \in 1..Len(Index["a"]) :
          /\ Index["a"][i].val.yanked
          /\ \A j \in 1..Len(Index["a"]) : ~SemverLess(Index["a"][i].key, Index["a"][j].key)

\* the task of package p is past dependency d of its version number i
Processed(p, i, d) == cursor[p].v > i \/ (cursor[p].v = i /\ cursor[p].d > d)

\* C13: once the build has handled a dependency of a non-yanked version that
\* is not Dev, names an indexed crate and has a requirement that parses, it
\* has inserted the dependent under the highest non-yanked version the
\* requirement admits and under no other version for that dependency (under
\* none when no version is admitted); every edge of the dependent under the
\* target crate is the choice of one of its dependencies.
HighestMatchingOnly ==
    \A p \in DOMAIN Index : \A i \in 1..Len(Index[p]) :
        LET version == Index[p][i]
            dependent == Pair(p, version.key)
        IN  ~version.val.yanked =>
            /\ \A d \in 1..Len(version.val.dependencies) :
                  LET dep == version.val.dependencies[d]
                      cands == Candidates(Index, dep.name, dep.req)
                      mine == {a \in accepted : a.dependent = dependent /\ a.d = d}
                  IN  (/\ Processed(p, i, d)
                       /\ dep.kind # "Dev"
                       /\ dep.name \in DOMAIN Index
                       /\ IsSome(ReqParse(dep.req)))
                      => IF cands = {} THEN mine = {}
                         ELSE /\ mine = {[dependent |-> dependent, d |-> d,
                                          crate |-> dep.name, semver |-> Highest(cands)]}
                              /\ [crate |-> dep.name, semver |-> Highest(cands),
                                  dependent |-> dependent] \in reverse_index
            /\ \A e \in reverse_index :
                  e.dependent = dependent =>
                      \E x \in DepsOf(Index, p, version.key) :
                          /\ x.dep.name = e.crate
                          /\ Candidates(Index, e.crate, x.dep.req) # {}
                          /\ e.semver = Highest(Candidates(Index, e.crate, x.dep.req))
\* a has 1.0.0, 1.2.0 yanked and 1.5.0; b 1.0.0 requires a ^1.0 and sits under
\* 1.5.0 only
HighestMatchingOnlyWitness ==
    /\ mainpc = "walk"
    /\ Len(Index["a"]) = 3
    /\ Index["a"][2].val.yanked
    /\ \E e \in reverse_index :
          /\ e.crate = "a" /\ e.semver = Index["a"][3].key
          /\ e.dependent = Pair("b", Index["b"][1].key)
    /\ ~\E e \in reverse_index : e.crate = "a" /\ e.semver = Index["a"][2].key

\* what one pass over the index inserts
ExpectedReverseIndex(idx) ==
    UNION {UNION {{[crate |-> Unwrap(edge_target(idx, x.dep)).crate,
                    semver |-> Unwrap(edge_target(idx, x.dep)).semver,
                    dependent |-> Pair(p, idx[p][i].key)] :
                      x \in {y \in DepsOf(idx, p, idx[p][i].key) : IsSome(edge_target(idx, y.dep))}} :
                  i \in {j \in 1..Len(idx[p]) : ~idx[p][j].val.yanked}} :
              p \in DOMAIN idx}

\* C18: every accepted edge is in the reverse index from the moment it is
\* accepted, and when the tasks have all ended the reverse index is the one
\* a single pass over the index gives, whatever the interleaving was.
InterleavingIndependent ==
    /\ \A a \in accepted :
          [crate |-> a.crate, semver |-> a.semver, dependent |-> a.dependent] \in reverse_index
    /\ mainpc # "index" => reverse_index = ExpectedReverseIndex(Index)
\* tasks of two packages have inserted under the same version of the same crate
InterleavingIndependentWitness ==
    /\ mainpc = "walk"
    /\ \E e, f \in reverse_index :
          /\ e.crate = f.crate
          /\ e.semver = f.semver
          /\ e.dependent.crate # f.dependent.crate

\* a dependency the build drops: the crate is unknown, the requirement does
\* not parse, or no non-yanked version is admitted
Dropped(idx, dep) ==
    /\ dep.kind # "Dev"
    /\ \/ dep.name \notin DOMAIN idx
       \/ ~IsSome(ReqParse(dep.req))
       \/ Candidates(idx, dep.name, dep.req) = {}

\* C19: a dropped dependency gives no edge and no failure: the build never
\* fails, nothing is accepted for the dropped dependency, and when the build
\* has ended every other dependency of the same version has its edge.
DroppedSilently ==
    /\ mainpc # "failed"
    /\ \A p \in DOMAIN Index : \A i \in 1..Len(Index[p]) :
          LET version == Index[p][i]
              dependent == Pair(p, version.key)
              deps == version.val.dependencies
          IN  \A d \in 1..Len(deps) :
                  (~version.val.yanked /\ Dropped(Index, deps[d])) =>
                      /\ ~\E a \in accepted : a.dependent = dependent /\ a.d = d
                      /\ (\A k \in 1..Len(deps) : deps[k].name = deps[d].name
                              => (Dropped(Index, deps[k]) \/ deps[k].kind = "Dev"))
                          => ~\E e \in reverse_index :
                                 e.dependent = dependent /\ e.crate = deps[d].name
                      /\ mainpc # "index" =>
                            \A k \in 1..Len(deps) :
                                (~Dropped(Index, deps[k]) /\ deps[k].kind # "Dev") =>
                                    \E e \in reverse_index :
                                        /\ e.dependent = dependent
                                        /\ e.crate = deps[k].name
                                        /\ e.semver = Highest(Candidates(Index, deps[k].name,
                                                                         deps[k].req))
\* the build has ended for a version with an unknown crate, a requirement
\* that does not parse and a requirement nothing satisfies, and its fourth
\* dependency has its edge
DroppedSilentlyWitness ==
    /\ mainpc = "walk"
    /\ Len(Index["b"][1].val.dependencies) = 4
    /\ Index["b"][1].val.dependencies[1].name \notin DOMAIN Index
    /\ ~IsSome(ReqParse(Index["b"][1].val.dependencies[2].req))
    /\ Candidates(Index, "a", Index["b"][1].val.dependencies[3].req) = {}
    /\ \E e \in reverse_index : e.dependent = Pair("b", Index["b"][1].key) /\ e.crate = "a"

\* ------------------------------------------------------ the walk, checked
\* the seeds as a set: every version of the searched crate, yanked or not,
\* that the searched requirement admits
SeedSet(idx, s) ==
    IF s.crate \in DOMAIN idx
    THEN {Pair(s.crate, idx[s.crate][i].key) : i \in {j \in 1..Len(idx[s.crate]) :
              ReqMatches(Unwrap(ReqParse(s.req)), idx[s.crate][j].key)}}
    ELSE {}

DependentsOfSet(ri, S) == UNION {Dependents(ri, n) : n \in S}

\* everything reached from a frontier, as a least fixed point
RECURSIVE ReachFrom(_, _, _)
ReachFrom(ri, frontier, acc) ==
    LET new == DependentsOfSet(ri, frontier) \ acc
    IN  IF new = {} THEN acc ELSE ReachFrom(ri, new, acc \cup new)

Count(seq, x) == Cardinality({i \in 1..Len(seq) : seq[i] = x})

\* C14 as stated: no reached dependent is taken from the queue twice.
VisitedAtMostOnce ==
    \A x \in reverse_dependencies : Count(popped, x) <= 1

\* C14: a pair is put on the queue as a dependent at most once, a reached
\* dependent that is not a seed is visited at most once and one that is a
\* seed at most twice; the set the walk returns is the one reached in the
\* reverse index a single pass over the index gives, whatever the order in
\* which edges were inserted and are iterated.
EnqueuedOnceAsDependent ==
    /\ \A i, j \in 1..Len(pushed) : pushed[i] = pushed[j] => i = j
    /\ \A x \in reverse_dependencies :
          Count(popped, x) <= (IF x \in SeedSet(Index, search) THEN 2 ELSE 1)
    /\ mainpc = "walked" =>
          reverse_dependencies = ReachFrom(ExpectedReverseIndex(Index), SeedSet(Index, search), {})
\* the diamond: b and c depend on a, d on b and c; the walk from a has
\* ended with b, c and d, and d was visited once
EnqueuedOnceAsDependentWitness ==
    /\ mainpc = "walked"
    /\ Dependents(reverse_index, Pair("a", Index["a"][1].key))
          = {Pair("b", Index["b"][1].key), Pair("c", Index["c"][1].key)}
    /\ Dependents(reverse_index, Pair("b", Index["b"][1].key)) = {Pair("d", Index["d"][1].key)}
    /\ Dependents(reverse_index, Pair("c", Index["c"][1].key)) = {Pair("d", Index["d"][1].key)}
    /\ reverse_dependencies = {Pair("b", Index["b"][1].key), Pair("c", Index["c"][1].key),
                               Pair("d", Index["d"][1].key)}
    /\ Count(popped, Pair("d", Index["d"][1].key)) = 1

\* the pairs one to k reverse edges away from a set
RECURSIVE Hops(_, _, _)
Hops(ri, S, k) ==
    IF k = 0 THEN {}
    ELSE DependentsOfSet(ri, S) \cup Hops(ri, DependentsOfSet(ri, S), k - 1)
AllPairs(idx) == UNION {{Pair(p, idx[p][i].key) : i \in 1..Len(idx[p])} : p \in DOMAIN idx}

\* C15: when the walk has ended, its result is the set of pairs that one or
\* more reverse edges lead to from a seed, the seeds being all versions of
\* the searched crate the requirement admits; a seed is in it only when
\* edges lead back to it.
WalkIsReachability ==
    mainpc = "walked" =>
        reverse_dependencies
            = Hops(reverse_index, SeedSet(Index, search), Cardinality(AllPairs(Index)))
\* a is required by b, b by c, nothing else: the walk from a ^1.0 has
\* ended with b 1.0.0 and c 1.0.0
WalkIsReachabilityWitness ==
    /\ mainpc = "walked"
    /\ search.req = ReqCaret10
    /\ reverse_index = {[crate |-> "a", semver |-> Index["a"][1].key,
                         dependent |-> Pair("b", Index["b"][1].key)],
                        [crate |-> "b", semver |-> Index["b"][1].key,
                         dependent |-> Pair("c", Index["c"][1].key)]}
    /\ reverse_dependencies = {Pair("b", Index["b"][1].key), Pair("c", Index["c"][1].key)}
    /\ popped = << Pair("a", Index["a"][1].key), Pair("b", Index["b"][1].key),
                   Pair("c", Index["c"][1].key) >>

\* C20: the result of the walk has at most one version of a package.
OneVersionPerName ==
    \A x, y \in reverse_dependencies : x.crate = y.crate => x = y

\* ------------------------------------------- a process that stops midway
\* cargo::ops::write_pkg_lockfile creates or truncates Cargo.lock at the
\* scratch path and writes the text into it; main.rs gives it the workspace
\* of the final path (line 179) and renames nothing.  A process that stops
\* while a worker is in that call leaves no file, a file with part of the
\* text (possibly none of it), or the whole file.
Writers == {w \in Workers : wpc[w] = "write"}
PathOf(w) == LockfilePath(Unwrap(witem[w]).crate_name, Unwrap(witem[w]).version)

\* the process stops at any point of the resolve phase
Crash ==
    /\ mainpc = "resolve"
    /\ run < MaxRuns
    /\ \E part \in SUBSET Writers : \E whole \in SUBSET (Writers \ part) :
          /\ torn' = torn \cup {PathOf(w) : w \in part}
          /\ cache' = cache \cup {PathOf(w) : w \in whole}
    /\ mainpc' = "crashed"
    /\ UNCHANGED << run, index, pending, wpc, witem, ctx, NEXT_THREAD_ID,
                    resolve_errors, guard, buf, position, report >>
    /\ UNCHANGED envVars
    /\ UNCHANGED histVars
    /\ UNCHANGED << tailVars, loadVars, graphVars, walkVars >>

\* the program is started again after a process that stopped midway
Restart ==
    /\ mainpc = "crashed"
    /\ run < MaxRuns
    /\ run' = run + 1
    /\ mainpc' = "parse"
    /\ index' = NoneVal
    /\ pending' = {}
    /\ wpc' = [w \in Workers |-> "idle"]
    /\ witem' = [w \in Workers |-> NoneVal]
    /\ ctx' = [w \in Workers |-> NoneVal]
    /\ NEXT_THREAD_ID' = 1
    /\ resolve_errors' = <<>>
    /\ guard' = NoneVal
    /\ buf' = [w \in Workers |-> <<>>]
    /\ position' = 0
    /\ report' = NoneVal
    /\ created' = [w \in Workers |-> 0]
    /\ uses' = {}
    /\ UNCHANGED << cache, invoked, outcome >>
    /\ UNCHANGED envVars
    /\ UNCHANGED << tailVars, loadVars, torn, graphVars, walkVars >>

\* lines 146-148 on a file with part of the text: load_pkg_lockfile reads
\* and parses whatever is at the path; a text cut at a table boundary
\* (the empty text too) parses and is the resolve, any other is an Err
\* that leaves the closure by '?'
LoadTornLockfile(w) ==
    /\ mainpc = "resolve"
    /\ wpc[w] = "load"
    /\ PathOf(w) \in torn
    /\ \/ EndItem(w, "torn_hit", "Ok")
       \/ EndItem(w, "load_error", "Err")
    /\ UNCHANGED << cache, run, index, pending, ctx, NEXT_THREAD_ID, resolve_errors,
                    guard, buf, position, report, invoked, created, uses >>
    /\ UNCHANGED envVars
    /\ UNCHANGED << tailVars, loadVars, torn, graphVars, walkVars >>

InitCrash ==
    /\ files \in [Packages -> {FileMixed, FileYanked}]
    /\ resolver \in [Packages -> {ResolveOk, DiagYanked}]
    /\ \A p \in Packages : ~Resolvable(files[p]) => resolver[p] = ResolveOk
    /\ cache = {}
    /\ run = 1
    /\ ProcessInit
    /\ HistInit(Packages)
    /\ value = <<>>
    /\ classified = NoneVal
    /\ RestInit

NextCrash ==
    \/ Next
    \/ Crash
    \/ Restart
    \/ \E w \in Workers : LoadTornLockfile(w)

SpecCrash == InitCrash /\ [][NextCrash]_vars

\* C17: whatever the point at which a process stopped, the scratch paths
\* hold complete lockfiles only, each of a key whose resolution succeeded;
\* no item is answered from a file with part of a lockfile; a key whose
\* lockfile a run has written is not resolved again by a later run.
CrashSafeCache ==
    /\ \A p \in PackageNames : \A r \in Runs : outcome[r][p] # "torn_hit"
    /\ torn = {}
    /\ \A p \in PackageNames : \A r0 \in Runs : \A r \in Runs :
          (r0 < r /\ outcome[r0][p] = "resolved") => invoked[r][p] = 0

\* ---------------------------------------------------- the filters, checked
\* the non-yanked versions of a crate of the index
LiveKeys(idx, crate) ==
    IF crate \in DOMAIN idx
    THEN {idx[crate][i].key : i \in {j \in 1..Len(idx[crate]) : ~idx[crate][j].val.yanked}}
    ELSE {}
IsLatestLive(idx, x) ==
    /\ LiveKeys(idx, x.crate) # {}
    /\ x.semver = Highest(LiveKeys(idx, x.crate))
\* a pair of a package the index does not have
Stranger == Pair("x", Unwrap(SemverParse(V100)))

\* C21: the latest-version filter keeps a reached dependent exactly when
\* its version is the highest non-yanked version of its package; a pair of
\* a package that is not in the index, or that has only yanked versions, is
\* not kept.
LatestOnly ==
    /\ \A x \in AllPairs(Index) \cup {Stranger} : latest_filter(Index, x) <=> IsLatestLive(Index, x)
    /\ mainpc = "latest" =>
          /\ filter_input = reverse_dependencies
          /\ filtered_reverse_dependencies = {x \in filter_input : IsLatestLive(Index, x)}
\* b 1.0.0 and b 1.1.0 were both reached and only b 1.1.0 is kept, in an
\* index whose package d has only a yanked version
LatestOnlyWitness ==
    /\ mainpc = "latest"
    /\ LiveKeys(Index, "d") = {}
    /\ Len(Index["b"]) = 2
    /\ Pair("b", Index["b"][1].key) \in filter_input \ filtered_reverse_dependencies
    /\ Pair("b", Index["b"][2].key) \in filtered_reverse_dependencies

\* a rust-version string as numbers, MAJOR[.MINOR[.PATCH]], absent parts 0
MsrvNumbers(rv) ==
    LET parts == Unwrap(RustVersionParse(rv))
    IN  [i \in 1..3 |-> IF i <= Len(parts) THEN ToNat(parts[i]) ELSE 0]
\* the declared minimum is at most the target version
Satisfied(rv, target) ==
    /\ IsSome(RustVersionParse(rv))
    /\ LET m == MsrvNumbers(rv)
       IN  \/ m[1] < target.major
           \/ m[1] = target.major /\ m[2] < target.minor
           \/ m[1] = target.major /\ m[2] = target.minor /\ m[3] <= target.patch
RecordOf(idx, x) == (CHOOSE e \in EntriesOf(idx, x.crate, x.semver) : TRUE).val

\* C22: the msrv filter keeps a dependent exactly when its version declares
\* no rust-version or declares one that the target version satisfies; a
\* declared rust-version that cannot be read is not satisfied.
MsrvCompatibleOnly ==
    mainpc = "msrv" =>
        filtered_reverse_dependencies
            = {x \in filter_input :
                  \/ ~IsSome(RecordOf(Index, x).rust_version)
                  \/ Satisfied(Unwrap(RecordOf(Index, x).rust_version), SEARCH_MSRV)}

\* C23: the leaf filter keeps a dependent exactly when no version of its
\* package has a dependent in the reverse index, so that what is kept has
\* no dependents.
LeafOnly ==
    mainpc = "leaf" =>
        /\ filtered_reverse_dependencies
              = {x \in filter_input :
                    \A i \in 1..Len(Index[x.crate]) :
                        Dependents(reverse_index, Pair(x.crate, Index[x.crate][i].key)) = {}}
        /\ \A x \in filtered_reverse_dependencies : Dependents(reverse_index, x) = {}
\* b 1.1.0 came to the filter with no dependent of its own and is dropped
\* because c requires b 1.0.0, while another pair is kept
LeafOnlyWitness ==
    /\ mainpc = "leaf"
    /\ Len(Index["b"]) = 2
    /\ Pair("b", Index["b"][2].key) \in filter_input \ filtered_reverse_dependencies
    /\ Dependents(reverse_index, Pair("b", Index["b"][2].key)) = {}
    /\ filtered_reverse_dependencies # {}

\* ------------------------------------------------ the scratch path alone
\* PathBuf::join on relative components: the text of a path whose first and
\* last components are fixed names and whose other components are strings
\* of characters
RECURSIVE JoinFrom(_, _)
JoinFrom(m, i) ==
    IF i >= Len(m) THEN << "/", m[Len(m)] >>
    ELSE << "/" >> \o m[i] \o JoinFrom(m, i + 1)
PathText(m) == << m[1] >> \o JoinFrom(m, 2)

\* package names and version records for the path
NameA == << "a" >>
NameA1 == << "a", "1" >>
NameADash == << "a", "-" >>
NameADash1 == << "a", "-", "1" >>
Name1 == << "1" >>
PathNames == {NameA, NameA1, NameADash, NameADash1, Name1}
V1100 == << "1", "1", ".", "0", ".", "0" >>
PathVersions == {V100, V110, V200a, V1100}
PathKeys ==
    {[crate_name |-> n, version |-> Record(v, y, NoneVal)] :
        n \in PathNames, v \in PathVersions, y \in BOOLEAN}

InitPath ==
    /\ files = [p \in {"a"} |-> FileOne]
    /\ resolver = [p \in {"a"} |-> ResolveOk]
    /\ cache = {}
    /\ run = 1
    /\ ProcessInit
    /\ HistInit({"a"})
    /\ value = <<>>
    /\ classified = NoneVal
    /\ parsed = [p \in DOMAIN files |-> NoneVal]
    /\ torn = {}
    /\ search = [crate |-> "a", req |-> <<>>]
    /\ reverse_index = {}
    /\ cursor = [p \in DOMAIN files |-> [v |-> 1, d |-> 1]]
    /\ accepted = {}
    /\ queue = <<>>
    /\ reverse_dependencies = {}
    /\ pushed = <<>>
    /\ popped = <<>>
    /\ filter_input = {}
    /\ filtered_reverse_dependencies = {}
    /\ args \in {<< k1, k2 >> : k1 \in PathKeys, k2 \in PathKeys}
    /\ result = NoneVal
    /\ krate = NoneVal
    /\ answers = <<>>

\* synth_manifest_path on each of the two keys
ManifestPaths ==
    /\ ~IsSome(result)
    /\ result' = Some(<< PathText(synth_manifest_path(args[1].crate_name, args[1].version)),
                         PathText(synth_manifest_path(args[2].crate_name, args[2].version)) >>)
    /\ UNCHANGED << cache, run, mainpc, index, pending, wpc, witem, ctx, NEXT_THREAD_ID,
                    resolve_errors, guard, buf, position, report, args >>
    /\ UNCHANGED envVars
    /\ UNCHANGED histVars
    /\ UNCHANGED << filterVars, krateVars, loadVars, torn, graphVars, walkVars >>

NextPath == ManifestPaths

SpecPath == InitPath /\ [][NextPath]_vars

\* C24: the scratch paths of two descriptors are the same exactly when the
\* package names are the same and the version strings are the same; nothing
\* else of the version record takes part.
PathInjective ==
    IsSome(result) =>
        (Unwrap(result)[1] = Unwrap(result)[2]
            <=> (/\ args[1].crate_name = args[2].crate_name
                 /\ args[1].version.vers = args[2].version.vers))
\* paths were made for a-1 with 1.0.0 and a with 11.0.0, which differ only
\* in where the name ends, and for one key yanked and not yanked
PathInjectiveWitness ==
    /\ IsSome(result)
    /\ \/ /\ args[1].crate_name = NameA1 /\ args[1].version.vers = V100
          /\ args[2].crate_name = NameA /\ args[2].version.vers = V1100
          /\ Unwrap(result)[1] # Unwrap(result)[2]
       \/ /\ args[1].crate_name = args[2].crate_name
          /\ args[1].version.vers = args[2].version.vers
          /\ args[1].version.yanked # args[2].version.yanked
          /\ Unwrap(result)[1] = Unwrap(result)[2]

\* ------------------------------------------------ synth_dependencies alone
\* crates_index::Dependency with all its fields; crate_name() is the
\* package when the dependency is renamed and the name otherwise
DependencySpec(name, package, req, kind, optional, default_features, features, target) ==
    [name |-> name, package |-> package, req |-> req, kind |-> kind, optional |-> optional,
     default_features |-> default_features, features |-> features, target |-> target]
crate_name(d) == IF IsSome(d.package) THEN Unwrap(d.package) ELSE d.name

\* target strings, as tokens
TargetName == << "x86_64-unknown-linux-gnu" >>
TargetCfg == << "cfg(", "unix", ")" >>
TargetEmptyCfg == << "cfg(", ")" >>
TargetOpenCfg == << "cfg(", "unix" >>

\* cargo_platform::Platform::from_str: "cfg(" .. ")" holds a cfg expression,
\* anything else is a target name, in which '(' is not allowed
PlatformParse(s) ==
    IF Len(s) >= 2 /\ s[1] = "cfg(" /\ s[Len(s)] = ")"
    THEN (IF Len(s) = 3 THEN Some([cfg |-> TRUE, text |-> s[2]]) ELSE NoneVal)
    ELSE IF Len(s) = 1 /\ s[1] # "cfg(" THEN Some([cfg |-> FALSE, text |-> s[1]])
    ELSE NoneVal
\* Display of a Platform
PlatformText(p) == IF p.cfg THEN << "cfg(", p.text, ")" >> ELSE << p.text >>

\* lines 134-138: the match on dependency.kind()
dep_kind_all_normal(kind) == "Normal"
dep_kind(kind) ==
    CASE kind = "Normal" -> "Normal"
      [] kind = "Dev" -> "Development"
      [] kind = "Build" -> "Build"

\* lines 126-149: the closure on one dependency; None is an Err
synth_dependency(d) ==
    IF ~IsSome(ReqParse(d.req)) THEN NoneVal
    ELSE IF IsSome(d.target) /\ ~IsSome(PlatformParse(Unwrap(d.target))) THEN NoneVal
    ELSE Some([package_name |-> crate_name(d),
               req |-> Unwrap(ReqParse(d.req)),
               default_features |-> d.default_features,
               explicit_name_in_toml |-> Some(d.name),
               features |-> d.features,
               kind |-> dep_kind(d.kind),
               optional |-> d.optional,
               platform |-> IF IsSome(d.target)
                            THEN Some(Unwrap(PlatformParse(Unwrap(d.target))))
                            ELSE NoneVal])

\* lines 118-152: map and collect into a Result of a Vec
RECURSIVE SynthFrom(_, _)
SynthFrom(deps, i) ==
    IF i > Len(deps) THEN Some(<<>>)
    ELSE LET out == synth_dependency(deps[i])
             rest == SynthFrom(deps, i + 1)
         IN  IF ~IsSome(out) \/ ~IsSome(rest) THEN NoneVal
             ELSE Some(<< Unwrap(out) >> \o Unwrap(rest))
synth_dependencies(version) == SynthFrom(version.dependencies, 1)

F12 == << "f1", "f2" >>
F21 == << "f2", "f1" >>
DependencySpecs ==
    { DependencySpec("b", NoneVal, ReqCaret10, "Normal", FALSE, TRUE, <<>>, NoneVal),
      DependencySpec("alias", Some("b"), ReqCaret1, "Dev", TRUE, FALSE, F12, Some(TargetCfg)),
      DependencySpec("c", NoneVal, ReqEq100, "Build", FALSE, FALSE, F21, Some(TargetName)),
      DependencySpec("c", NoneVal, ReqCaret10, "Dev", FALSE, TRUE, <<>>, NoneVal),
      DependencySpec("b2", Some("b"), ReqCaret10, "Normal", TRUE, TRUE, F12, NoneVal),
      DependencySpec("b", NoneVal, ReqBad, "Normal", FALSE, TRUE, <<>>, NoneVal),
      DependencySpec("b", NoneVal, ReqCaret10, "Normal", FALSE, TRUE, <<>>, Some(TargetEmptyCfg)),
      DependencySpec("c", NoneVal, ReqCaret10, "Build", TRUE, TRUE, <<>>, Some(TargetOpenCfg)) }
DependencyLists ==
    UNION {[1..n -> DependencySpecs] : n \in 0..MaxDeps}

InitDeps ==
    /\ files = [p \in {"a"} |-> FileOne]
    /\ resolver = [p \in {"a"} |-> ResolveOk]
    /\ cache = {}
    /\ run = 1
    /\ ProcessInit
    /\ HistInit({"a"})
    /\ value = <<>>
    /\ classified = NoneVal
    /\ parsed = [p \in DOMAIN files |-> NoneVal]
    /\ torn = {}
    /\ search = [crate |-> "a", req |-> <<>>]
    /\ reverse_index = {}
    /\ cursor = [p \in DOMAIN files |-> [v |-> 1, d |-> 1]]
    /\ accepted = {}
    /\ queue = <<>>
    /\ reverse_dependencies = {}
    /\ pushed = <<>>
    /\ popped = <<>>
    /\ filter_input = {}
    /\ filtered_reverse_dependencies = {}
    /\ args \in {RecordWith(V100, FALSE, NoneVal, deps) : deps \in DependencyLists}
    /\ result = NoneVal
    /\ krate = NoneVal
    /\ answers = <<>>

SynthDependencies ==
    /\ ~IsSome(result)
    /\ result' = Some(synth_dependencies(args))
    /\ UNCHANGED << cache, run, mainpc, index, pending, wpc, witem, ctx, NEXT_THREAD_ID,
                    resolve_errors, guard, buf, position, report, args >>
    /\ UNCHANGED envVars
    /\ UNCHANGED histVars
    /\ UNCHANGED << filterVars, krateVars, loadVars, torn, graphVars, walkVars >>

NextDeps == SynthDependencies

SpecDeps == InitDeps /\ [][NextDeps]_vars

\* the name under which the manifest refers to a resolver dependency
name_in_toml(out) ==
    IF IsSome(out.explicit_name_in_toml) THEN Unwrap(out.explicit_name_in_toml)
    ELSE out.package_name

\* C25: when synth_dependencies is Ok, its list has one entry per dependency
\* of the version record, in the same order; entry i has the package of
\* dependency i, its kind mapped Normal to Normal, Dev to Development and
\* Build to Build, its optional and default-features flags, its name in the
\* manifest (the rename when there is one), its feature list and its
\* platform predicate (none when there is none).
OneEntryPerDependency ==
    (IsSome(result) /\ IsSome(Unwrap(result))) =>
        LET out == Unwrap(Unwrap(result))
            deps == args.dependencies
        IN  /\ Len(out) = Len(deps)
            /\ \A i \in 1..Len(deps) :
                  /\ out[i].package_name = crate_name(deps[i])
                  /\ out[i].kind = (CASE deps[i].kind = "Normal" -> "Normal"
                                      [] deps[i].kind = "Dev" -> "Development"
                                      [] deps[i].kind = "Build" -> "Build")
                  /\ out[i].optional = deps[i].optional
                  /\ out[i].default_features = deps[i].default_features
                  /\ name_in_toml(out[i]) = deps[i].name
                  /\ IsSome(deps[i].package) => out[i].explicit_name_in_toml = Some(deps[i].name)
                  /\ out[i].features = deps[i].features
                  /\ IsSome(out[i].platform) <=> IsSome(deps[i].target)
                  /\ IsSome(deps[i].target) =>
                        PlatformText(Unwrap(out[i].platform)) = Unwrap(deps[i].target)
\* a renamed optional Dev dependency with features and a cfg predicate,
\* followed by a Build dependency on a named target, came out as two entries
OneEntryPerDependencyWitness ==
    /\ IsSome(result) /\ IsSome(Unwrap(result))
    /\ Len(args.dependencies) = 2
    /\ args.dependencies[1].kind = "Dev" /\ IsSome(args.dependencies[1].package)
    /\ args.dependencies[1].target = Some(TargetCfg)
    /\ args.dependencies[2].kind = "Build" /\ args.dependencies[2].target = Some(TargetName)
    /\ Len(Unwrap(Unwrap(result))) = 2

\* ------------------------------------------------ the batch, accounted for
\* the lockfile of the latest non-yanked version of p is in the cache
LockfileCached(p) ==
    /\ HasNonYanked(p)
    /\ LockfilePath(p, Unwrap(latest_non_yanked(Index[p])).val) \in cache
FailureRecords(p) == {i \in 1..Len(resolve_errors) : resolve_errors[i].crate_name = p}

\* C26: when the batch has completed normally, every package of the index
\* is exactly one of: skipped for having no non-yanked version, a success
\* with its lockfile in the cache, or the subject of one failure record.
OutcomeConservation ==
    RunComplete =>
        \A p \in PackageNames :
            /\ ~HasNonYanked(p) => (~LockfileCached(p) /\ FailureRecords(p) = {})
            /\ HasNonYanked(p) =>
                  \/ LockfileCached(p) /\ FailureRecords(p) = {}
                  \/ ~LockfileCached(p) /\ Cardinality(FailureRecords(p)) = 1

\* ------------------------------------------------------ the walk, to its end
\* the walk is one loop on the main thread: a step of it that can be taken
\* is taken
SpecGraphFair ==
    /\ InitGraph
    /\ [][NextGraph]_vars
    /\ WF_vars(WalkSeed)
    /\ WF_vars(WalkStep)
    /\ WF_vars(WalkFinish)

NoPairPushedTwice == \A i, j \in 1..Len(pushed) : pushed[i] = pushed[j] => i = j
WalkBegun == mainpc = "walk"
WalkEnded == mainpc = "walked"

\* C27: the walk, once begun, ends for every reverse index, cycles and a
\* seed reached from itself included, and a pair is put on the queue at most
\* once after the seeding.
WalkTerminates == []NoPairPushedTwice /\ (WalkBegun ~> WalkEnded)
\* the walk has ended in an index where a requires c and c requires a: the
\* seed a was reached from itself and visited twice
WalkTerminatesWitness ==
    /\ mainpc = "walked"
    /\ \E i \in 1..Len(Index["a"]) :
          /\ Pair("a", Index["a"][i].key) \in reverse_dependencies
          /\ Count(popped, Pair("a", Index["a"][i].key)) = 2

\* ------------------------------------------------------------ the Krate
\* BTreeMap<String, _>::insert: the value of an existing key is replaced, a
\* new key goes to its place in the order of strings
StringMapInsert(m, k, v) ==
    IF \E i \in 1..Len(m) : m[i].key = k
    THEN LET i == CHOOSE j \in 1..Len(m) : m[j].key = k
         IN  [m EXCEPT ![i].val = v]
    ELSE LET below == Cardinality({j \in 1..Len(m) : StrCmp(m[j].key, k) < 0})
         IN  SubSeq(m, 1, below) \o << [key |-> k, val |-> v] >> \o SubSeq(m, below + 1, Len(m))

\* crates_index::Version of a crate, and KrateVersion::from (krate_version.rs
\* lines 29-36): version.name() is the name of the crate
CrateVersion(name, vers) == [name |-> name, vers |-> vers]
KrateVersion(version) == [crate_version |-> version, semver |-> Unwrap(SemverParse(version.vers))]

\* krate.rs lines 15-19: .map(|version| (version.name().to_string(), ..)).collect()
RECURSIVE CollectKrateVersions(_, _)
CollectKrateVersions(versions, acc) ==
    IF versions = <<>> THEN acc
    ELSE CollectKrateVersions(Tail(versions),
                              StringMapInsert(acc, Head(versions).name, KrateVersion(Head(versions))))
\* impl From<Crate> for Krate
KrateFrom(crate) ==
    [krate |-> crate, versions |-> CollectKrateVersions(crate, <<>>), asked_versions |-> {}]

\* BTreeMap::get by key
StringMapGet(m, k) ==
    IF \E i \in 1..Len(m) : m[i].key = k
    THEN Some(m[CHOOSE j \in 1..Len(m) : m[j].key = k].val)
    ELSE NoneVal

\* krate.rs lines 45-50: the first entry from the end that the requirement matches
RECURSIVE FindLastKrateVersion(_, _, _)
FindLastKrateVersion(m, i, c) ==
    IF i = 0 THEN NoneVal
    ELSE IF ReqMatches(c, m[i].val.semver) THEN Some(m[i])
    ELSE FindLastKrateVersion(m, i - 1, c)

\* Krate::ask_version: the Krate afterwards and the answer
ask_version(k, req) ==
    IF \E a \in k.asked_versions : a.req = req
    THEN [krate |-> k,
          answer |-> StringMapGet(k.versions,
                                  (CHOOSE a \in k.asked_versions : a.req = req).key)]
    ELSE LET found == FindLastKrateVersion(k.versions, Len(k.versions), Unwrap(ReqParse(req)))
         IN  IF IsSome(found)
             THEN [krate |-> [k EXCEPT !.asked_versions =
                                 @ \cup {[req |-> req, key |-> Unwrap(found).key]}],
                   answer |-> Some(Unwrap(found).val)]
             ELSE [krate |-> k, answer |-> NoneVal]

KrateVersionLists ==
    { << V100 >>, << V100, V110 >>, << V110, V100 >>, << V100, V200 >>, << V200, V100 >>,
      << V100, V120, V150 >>, << V200 >>, << V100, V200a >> }
Crates == {[i \in 1..Len(vs) |-> CrateVersion(NameA, vs[i])] : vs \in KrateVersionLists}
ReqStar == << "*" >>
KrateReqs == {ReqCaret10, ReqEq100, ReqEq200, ReqStar}

InitKrate ==
    /\ files = [p \in {"a"} |-> FileOne]
    /\ resolver = [p \in {"a"} |-> ResolveOk]
    /\ cache = {}
    /\ run = 1
    /\ ProcessInit
    /\ HistInit({"a"})
    /\ value = <<>>
    /\ classified = NoneVal
    /\ parsed = [p \in DOMAIN files |-> NoneVal]
    /\ torn = {}
    /\ search = [crate |-> "a", req |-> <<>>]
    /\ reverse_index = {}
    /\ cursor = [p \in DOMAIN files |-> [v |-> 1, d |-> 1]]
    /\ accepted = {}
    /\ queue = <<>>
    /\ reverse_dependencies = {}
    /\ pushed = <<>>
    /\ popped = <<>>
    /\ filter_input = {}
    /\ filtered_reverse_dependencies = {}
    /\ args \in Crates
    /\ result = NoneVal
    /\ krate = Some(KrateFrom(args))
    /\ answers = <<>>

AskVersion ==
    /\ IsSome(krate)
    /\ Len(answers) < MaxAsks
    /\ \E req \in KrateReqs :
          LET r == ask_version(Unwrap(krate), req)
          IN  /\ krate' = Some(r.krate)
              /\ answers' = Append(answers, [req |-> req, answer |-> r.answer])
    /\ UNCHANGED << cache, run, mainpc, index, pending, wpc, witem, ctx, NEXT_THREAD_ID,
                    resolve_errors, guard, buf, position, report >>
    /\ UNCHANGED envVars
    /\ UNCHANGED histVars
    /\ UNCHANGED << filterVars, fnVars, loadVars, torn, graphVars, walkVars >>

NextKrate == AskVersion

SpecKrate == InitKrate /\ [][NextKrate]_vars

\* the semantic versions of the crate that a requirement matches
MatchingVersions(crate, req) ==
    {Unwrap(SemverParse(crate[i].vers)) : i \in {j \in 1..Len(crate) :
        ReqMatches(Unwrap(ReqParse(req)), Unwrap(SemverParse(crate[j].vers)))}}

\* C28: every answer of ask_version is the version of the crate with the
\* highest semantic version among those the requirement matches, and none
\* exactly when none matches; a requirement asked again gets the answer it
\* got the first time.
AskVersionHighest ==
    /\ \A i \in 1..Len(answers) :
          LET matching == MatchingVersions(args, answers[i].req)
          IN  IF matching = {} THEN answers[i].answer = NoneVal
              ELSE /\ IsSome(answers[i].answer)
                   /\ Unwrap(answers[i].answer).semver = Highest(matching)
    /\ \A i, j \in 1..Len(answers) :
          answers[i].req = answers[j].req => answers[i].answer = answers[j].answer
====
